---- MODULE Spec2Model ----
(***************************************************************************)
(* datafiller.py: the directive-driven generator engine.                   *)
(*                                                                         *)
(* The script is modelled as one sequential process whose position is pc:  *)
(*   "scan" -> "defaults" -> "tsizes" -> "asizes" -> "gens" -> "fill" ->   *)
(*   "restart" -> "done", or "failed" when an exception or assertion       *)
(*   aborts the run.                                                       *)
(* Python dictionaries are functions whose DOMAIN is the set of keys       *)
(* present; None is the absence of the key.  Floats are fixed point:       *)
(* multipliers in units of 1/MultOne, probabilities in units of 1/RateOne. *)
(* The random source is a nondeterministic choice among the values the     *)
(* call can return; draws keeps what each source returned.  SpecReplay     *)
(* runs the script twice on the same input, a seeded source giving in the  *)
(* second run the answers of the first.                                    *)
(***************************************************************************)
EXTENDS Integers, Sequences, FiniteSets, TLC

VARIABLES
    pc,        \* position of the script
    scan,      \* the scanner: directive lines to read, df_macro, typed params
    err,       \* message of the exception that aborted the run, "" if none
    schema,    \* schema.params: the schema-level directives
    opts,      \* the options (argparse namespace), keys with value None absent
    tables,    \* the scanned tables, in occurrence order (scanner output)
    aparams,   \* aparams[t][a]: Attribute.params
    tsize,     \* tsize[t]: Table.size, for the tables that have one
    tskip,     \* tskip[t]: Table.skip
    asize,     \* asize[t][a]: Attribute.size, for the attributes that have one
    gen,       \* gen[t][a]: Attribute.gen, for the attributes visited so far
    gi,        \* generator construction loop: <<table, attribute>> to visit
    ti,        \* fill loop: current table
    row,       \* fill loop: i of "for i in range(t.size)"
    tries,     \* Table.getData: local variable tries of the call in progress
    ustuff,    \* ustuff[t]: Table.ustuff, the keys seen
    attempts,  \* history: tuple attempts made by the getData call in progress
    calls,     \* history: calls[t][a] = <<base, value>> of every genData call
    nulls,     \* history: nulls[t][a] = number of getData calls that returned null
    tuples,    \* history: tuples[t] = the tuples Table.getData returned
    emitted,   \* history: emitted[t] = the tuples handed to insertValue
    restart,   \* restart[t][a]: number given to setSequence
    draws,     \* history: what the random sources returned, in call order
    env        \* what the run gets from outside: date.today(), and for a run
               \* made again, the first run

vars == <<pc, scan, err, schema, opts, tables, aparams, tsize, tskip, asize, gen, gi,
          ti, row, tries, ustuff, attempts, calls, nulls, tuples, emitted,
          restart, draws, env>>

---------------------------------------------------------------------------
(* Bounds of the model *)

MaxRows == 3        \* largest table size of the generator scenarios
MaxSize == 3        \* largest domain size directive
MaxAttempts == 4    \* attempts explored in one getData call when tries < 0
MaxTokens == 2      \* longest directive line of the macro scenarios, in tokens
MaxByte == 1        \* largest byte of a blob (255 in the program)

(* Fixed-point units and program constants *)

MultOne == 2        \* the float 1.0 of a mult directive, in halves
RateOne == 100      \* the float 1.0 of a probability, in hundredths
DefaultSize == 100  \* schema.params.get('size', 100)
DefaultNull == 1    \* schema.params.get('null', 0.01), in hundredths
DefaultTries == 10  \* --tries default

---------------------------------------------------------------------------
(* Python dictionaries *)

EmptyDict == [k \in {} |-> 0]

Has(d, k) == k \in DOMAIN d

Get(d, k, default) == IF k \in DOMAIN d THEN d[k] ELSE default

Put(d, k, v) == (k :> v) @@ d

Del(d, k) == [x \in DOMAIN d \ {k} |-> d[x]]

\* Update that keeps the entries d already has
UpdateKeep(d, e) == d @@ e

\* d.update(e)
Update(d, e) == e @@ d

\* truth value of an optional number: None and 0 are false
Truthy(d, k) == k \in DOMAIN d /\ d[k] # 0

\* int(x) of the float num/den: truncation toward zero
PyInt(num, den) == IF num >= 0 THEN num \div den ELSE -((-num) \div den)

\* Python's a % b: the result has the sign of b
PyMod(a, b) == IF b > 0 THEN a % b ELSE -((-a) % (-b))

RECURSIVE gcd(_, _)
\* fractions.gcd: while b: a, b = b, a%b
gcd(a, b) == IF b = 0 THEN a ELSE gcd(b, PyMod(a, b))

\* IntGenerator.primes
primes == << 107, 127, 149, 163, 197, 229, 269, 317, 389, 449, 547, 631, 733,
             839, 977, 1063, 1181, 1259, 1511, 1789, 2003, 2251, 2503, 2749,
             3001, 4001, 5003, 6007, 7001, 8009, 9973, 19937, 39847, 79693 >>

---------------------------------------------------------------------------
(* Values of a tuple: db.null() or a generated integer *)

null == << >>

IntVal(v) == << v >>

---------------------------------------------------------------------------
(* The relation model, as the scanner builds it *)

\* Table.__init__ followed by setParams(directive)
Table(name, directive, atts, unique) ==
    [name |-> name, params |-> Update([mult |-> MultOne], directive),
     atts |-> atts, unique |-> unique]

\* Attribute.__init__, the column flags, and setParams(directive);
\* FK = 0 and FKatt = "" stand for None; given are the keys the directive set
Attribute(name, number, type, isPK, unique, not_null, FK, FKatt, directive) ==
    [name |-> name, number |-> number, type |-> type, isPK |-> isPK,
     unique |-> unique, not_null |-> not_null, FK |-> FK, FKatt |-> FKatt,
     params |-> Update([mult |-> MultOne], directive),
     given |-> DOMAIN directive]

isUnique(att) == att.isPK \/ att.unique

isNullable(att) == ~att.not_null /\ ~att.isPK

\* PostgreSQL.serialType
isSerial(att) == att.type \in {"serial", "smallserial", "bigserial"}

\* PostgreSQL.intType
intType(type) ==
    type \in {"smallint", "int", "integer", "bigint",
              "serial", "smallserial", "bigserial"}

NT == Len(tables)

NA(t) == Len(tables[t].atts)

\* Table.getPK: number of the first primary key attribute, 0 when it raises
getPK(t) ==
    IF \E a \in 1..NA(t) : tables[t].atts[a].isPK
    THEN CHOOSE a \in 1..NA(t) :
            /\ tables[t].atts[a].isPK
            /\ \A b \in 1..(a-1) : ~tables[t].atts[b].isPK
    ELSE 0

\* Table.atts[name]: number of the attribute of that name, 0 for a KeyError
attNamed(t, name) ==
    IF \E a \in 1..NA(t) : tables[t].atts[a].name = name
    THEN CHOOSE a \in 1..NA(t) : tables[t].atts[a].name = name
    ELSE 0

\* the <<table, attribute>> pairs of tables t.., in table-then-attribute order
RECURSIVE PositionsFrom(_)
PositionsFrom(t) ==
    IF t > NT THEN << >>
    ELSE [a \in 1..NA(t) |-> <<t, a>>] \o PositionsFrom(t + 1)

Positions == PositionsFrom(1)

---------------------------------------------------------------------------
(* Directives: getParams, Model.setParams and checkParams *)

\* a Python value with its type: "str", "float", "int" or "bool"
Val(t, v) == [t |-> t, v |-> v]

\* one token of a directive line, by the first regular expression of getParams
\* that matches it: "txt" key='val', "flt" key=1.5, "int" key=12, "str"
\* key=val, "bol" key, and "bad" when none matches.  The val of a "flt" token
\* is in the fixed-point unit of its key.
Tok(kind, key, val) == [kind |-> kind, key |-> key, val |-> val]

\* Model.params: the schema-level directives and their types
ModelParams ==
    [size |-> "int", offset |-> "int", mangle |-> "bool", null |-> "float",
     seed |-> "str"]

\* Table.params
TableParams ==
    [mult |-> "float", size |-> "int", nogen |-> "bool", skip |-> "float",
     null |-> "float"]

\* Attribute.params
AttributeParams ==
    [type |-> "str", nogen |-> "bool", size |-> "int", mult |-> "float",
     null |-> "float", seed |-> "str", gen |-> "str", alpha |-> "float",
     rate |-> "float", beta |-> "float", offset |-> "int", step |-> "int",
     shift |-> "int", mangle |-> "bool", nomangle |-> "bool",
     prefix |-> "str", length |-> "int", lenvar |-> "int", word |-> "str",
     text |-> "bool", chars |-> "str", cgen |-> "str", start |-> "str",
     end |-> "str", prec |-> "int", tz |-> "str", unit |-> "str"]

\* self.__class__.params of the object a directive line is attached to
LegalParams(scope) ==
    IF scope = "schema" THEN ModelParams
    ELSE IF scope = "table" THEN TableParams
    ELSE AttributeParams

\* the predefined macros cfr, french, cen and english
df_macro ==
    [cfr     |-> [gen |-> Val("str", "scale"), rate |-> Val("float", 17)],
     french  |-> [chars |-> Val("str", "esaitnrulodcpmvqfbghjxyzwk"),
                  cgen |-> Val("str", "cfr")],
     cen     |-> [gen |-> Val("str", "scale"), rate |-> Val("float", 15)],
     english |-> [chars |-> Val("str", "etaonrishdlfcmugypwbvkjxqz"),
                  cgen |-> Val("str", "cen")]]

\* ParseToken in which a macro only sets the keys not set yet
ParseTokenKeep(macros, d, st) ==
    IF d.kind = "txt"
    THEN [st EXCEPT !.params = Put(@, d.key, Val("str", d.val))]
    ELSE IF d.kind = "flt"
    THEN [st EXCEPT !.params = Put(@, d.key, Val("float", d.val))]
    ELSE IF d.kind = "int"
    THEN [st EXCEPT !.params = Put(@, d.key, Val("int", d.val))]
    ELSE IF d.kind = "str"
    THEN IF d.key = "use"
         THEN IF d.val \in DOMAIN macros
              THEN [st EXCEPT !.params = @ @@ macros[d.val]]
              ELSE [st EXCEPT !.err = "AssertionError"]
         ELSE [st EXCEPT !.params = Put(@, d.key, Val("str", d.val))]
    ELSE IF d.kind = "bol"
    THEN [st EXCEPT !.params = Put(@, d.key, Val("bool", TRUE))]
    ELSE [st EXCEPT !.err = "cannot parse"]

\* one round of the while loop of getParams on token d; st = [params, err]
ParseToken(macros, d, st) ==
    IF d.kind = "txt"
    THEN [st EXCEPT !.params = Put(@, d.key, Val("str", d.val))]
    ELSE IF d.kind = "flt"
    THEN [st EXCEPT !.params = Put(@, d.key, Val("float", d.val))]
    ELSE IF d.kind = "int"
    THEN [st EXCEPT !.params = Put(@, d.key, Val("int", d.val))]
    ELSE IF d.kind = "str"
    THEN IF d.key = "use"
         THEN IF d.val \in DOMAIN macros
              THEN [st EXCEPT !.params = Update(@, macros[d.val])]
              ELSE [st EXCEPT !.err = "AssertionError"]
         ELSE [st EXCEPT !.params = Put(@, d.key, Val("str", d.val))]
    ELSE IF d.kind = "bol"
    THEN [st EXCEPT !.params = Put(@, d.key, Val("bool", TRUE))]
    ELSE [st EXCEPT !.err = "cannot parse"]

RECURSIVE getParams(_, _, _, _)
\* getParams(dfline) from token i on, with df_macro = macros
getParams(macros, dfline, i, st) ==
    IF i > Len(dfline) \/ st.err # "" THEN st
    ELSE getParams(macros, dfline, i + 1, ParseToken(macros, dfline[i], st))

\* Model.checkParams: the exceptions the loop over self.params.items() may
\* raise (the iteration order of a dictionary decides which one comes first)
ModelCheck(params, legal) ==
    {"AssertionError" : k \in DOMAIN params \ DOMAIN legal}
    \cup
    {"unexpected type for float parameter" :
        k \in {x \in DOMAIN params \cap DOMAIN legal :
                 legal[x] = "float" /\ params[x].t \notin {"float", "int"}}}
    \cup
    {"unexpected type for int parameter" :
        k \in {x \in DOMAIN params \cap DOMAIN legal :
                 legal[x] = "int" /\ params[x].t # "int"}}

\* AttributeCheck that accepts every combination
AttributeCheckNone(params) == ""

\* Attribute.checkParams, after Model.checkParams: the exception raised, ""
\* if none
AttributeCheck(params) ==
    IF Has(params, "cgen") /\ ~Has(params, "chars")
    THEN "cgen directive requires chars directive"
    ELSE IF Has(params, "word") /\ Has(params, "chars")
    THEN "must choose one of word & chars"
    ELSE IF Has(params, "mangle") /\ Has(params, "nomangle")
    THEN "mangle and nomangle are exclusive"
    ELSE IF Has(params, "alpha") /\ Has(params, "rate")
    THEN "alpha and rate are exclusive"
    ELSE ""

\* checkParams of the object at scope: the exceptions it may raise
checkParams(scope, params) ==
    IF ModelCheck(params, LegalParams(scope)) # {}
    THEN ModelCheck(params, LegalParams(scope))
    ELSE IF scope = "att" /\ AttributeCheck(params) # ""
    THEN {AttributeCheck(params)}
    ELSE {}

\* the fixed-point unit of the float directive k
Unit(k) ==
    IF k \in {"null", "skip", "rate"} THEN RateOne
    ELSE IF k = "mult" THEN MultOne
    ELSE 1

\* the values of typed parameters as the script computes with them: an int
\* given for a float directive is that many units
Payload(legal, params) ==
    [k \in DOMAIN params |->
        IF params[k].t = "int" /\ k \in DOMAIN legal /\ legal[k] = "float"
        THEN params[k].v * Unit(k)
        ELSE params[k].v]

\* the scanner when no directive line is left to read
NoScan ==
    [lines  |-> << >>,
     macros |-> df_macro,
     params |-> [schema |-> EmptyDict, table |-> EmptyDict, att |-> EmptyDict],
     merged |-> [schema |-> << >>, table |-> << >>, att |-> << >>]]

\* the scanner of a schema of one table with one attribute, before it reads
\* the directive lines; a line is a macro definition [scope "macro", name,
\* tokens] or a directive [scope, tokens] for the schema, the table or the
\* attribute; merged is the history of the lines merged into each object
Scanner(lines) ==
    [lines  |-> lines,
     macros |-> df_macro,
     params |-> [schema |-> EmptyDict,
                 table  |-> [mult |-> Val("float", MultOne)],
                 att    |-> [mult |-> Val("float", MultOne)]],
     merged |-> [schema |-> << >>, table |-> << >>, att |-> << >>]]

\* one line of the schema: a macro definition, or setParams on the current
\* object (update, then checkParams); the end of the lines ends the scan
ScanLine ==
    /\ pc = "scan"
    /\ IF scan.lines = << >>
       THEN /\ pc' = "defaults"
            /\ UNCHANGED <<scan, err, schema, tables, aparams>>
       ELSE LET line == Head(scan.lines)
                rest == [scan EXCEPT !.lines = Tail(@)]
                r    == getParams(scan.macros, line.tokens, 1,
                                  [params |-> EmptyDict, err |-> ""])
            IN  IF r.err # ""
                THEN /\ scan' = rest
                     /\ pc' = "failed"
                     /\ err' = r.err
                     /\ UNCHANGED <<schema, tables, aparams>>
                ELSE IF line.scope = "macro"
                THEN /\ scan' = [rest EXCEPT !.macros = Put(@, line.name, r.params)]
                     /\ UNCHANGED <<pc, err, schema, tables, aparams>>
                ELSE LET sc   == line.scope
                         new  == Update(scan.params[sc], r.params)
                         errs == checkParams(sc, new)
                         pay  == Payload(LegalParams(sc), new)
                     IN  /\ scan' = [rest EXCEPT
                                       !.params[sc] = new,
                                       !.merged[sc] = Append(@, line.tokens)]
                         /\ schema' = IF sc = "schema" THEN pay ELSE schema
                         /\ tables' =
                              IF sc = "table"
                              THEN [tables EXCEPT ![1].params = pay]
                              ELSE IF sc = "att"
                              THEN [tables EXCEPT
                                      ![1].atts[1].params = pay,
                                      ![1].atts[1].given = @ \cup DOMAIN r.params]
                              ELSE tables
                         /\ aparams' = IF sc = "att"
                                       THEN [aparams EXCEPT ![<<1, 1>>] = pay]
                                       ELSE aparams
                         /\ IF errs = {}
                            THEN UNCHANGED <<pc, err>>
                            ELSE /\ pc' = "failed"
                                 /\ err' \in errs
    /\ UNCHANGED <<opts, tsize, tskip, asize, gen, gi, ti, row, tries, ustuff,
                   attempts, calls, nulls, tuples, emitted, restart, draws, env>>

---------------------------------------------------------------------------
(* SET DEFAULT VALUES for some options, possibly from directives *)

OptionDefaults(o, sp) ==
    LET o1 == IF ~Has(o, "size")
              THEN Put(o, "size", Get(sp, "size", DefaultSize)) ELSE o
        o2 == IF ~Truthy(o1, "offset")
              THEN (IF Has(sp, "offset") THEN Put(o1, "offset", sp.offset)
                    ELSE Del(o1, "offset"))
              ELSE o1
        o3 == IF ~o2.mangle THEN Put(o2, "mangle", Has(sp, "mangle")) ELSE o2
        o4 == IF ~Truthy(o3, "null")
              THEN Put(o3, "null", Get(sp, "null", DefaultNull)) ELSE o3
        o5 == IF ~(Has(o4, "seed") /\ o4.seed # "")
              THEN (IF Has(sp, "seed") THEN Put(o4, "seed", sp.seed)
                    ELSE Del(o4, "seed"))
              ELSE o4
    IN  o5

SetDefaults ==
    /\ pc = "defaults"
    /\ opts' = OptionDefaults(opts, schema)
    /\ pc' = "tsizes"
    /\ UNCHANGED <<scan, draws, env>>
    /\ UNCHANGED <<err, schema, tables, aparams, tsize, tskip, asize, gen, gi,
                   ti, row, tries, ustuff, attempts, calls, nulls, tuples, emitted,
                   restart>>

---------------------------------------------------------------------------
(* SET TABLE AND ATTRIBUTE SIZES: first table sizes *)

TableSkip(t) == Get(tables[t].params, "skip", 0)

\* TableSize without the mult directive
TableSizeNoMult(t) ==
    IF Has(tables[t].params, "size") THEN tables[t].params.size
    ELSE opts.size

TableSize(t) ==
    IF Has(tables[t].params, "size") THEN tables[t].params.size
    ELSE PyInt(tables[t].params.mult * opts.size, MultOne)

\* tables whose skip fails "assert t.skip >= 0.0 and t.skip <= 1.0"
BadSkip == {t \in 1..NT : TableSkip(t) < 0 \/ TableSkip(t) > RateOne}

SetTableSizes ==
    /\ pc = "tsizes"
    /\ LET stop == IF BadSkip = {} THEN NT + 1
                   ELSE CHOOSE t \in BadSkip : \A u \in BadSkip : t <= u
       IN  /\ tskip' = [t \in 1..NT |-> IF t <= stop THEN TableSkip(t) ELSE 0]
           /\ tsize' = [t \in {u \in 1..NT : u < stop} |-> TableSize(t)]
           /\ pc' = IF stop > NT THEN "asizes" ELSE "failed"
           /\ err' = IF stop > NT THEN err ELSE "AssertionError"
    /\ UNCHANGED <<scan, draws, env>>
    /\ UNCHANGED <<schema, opts, tables, aparams, asize, gen, gi, ti, row,
                   tries, ustuff, attempts, calls, nulls, tuples, emitted, restart>>

---------------------------------------------------------------------------
(* *then* set att sizes and possible offset *)

\* number of the attribute a foreign key refers to, 0 when the lookup raises
KeyOf(att) ==
    IF att.FKatt # "" THEN attNamed(att.FK, att.FKatt) ELSE getPK(att.FK)

\* TransferParams in which the directives of the key replace those of the
\* foreign key
TransferParamsKeyFirst(ap, kp, keyname) ==
    Update(Put(ap, "prefix", Get(kp, "prefix", keyname)), kp)

\* the directives of a foreign key after the transfer from its key
TransferParams(ap, kp, keyname) ==
    Update(kp, Put(ap, "prefix", Get(kp, "prefix", keyname)))

\* AttSizeStep without the test of the skip of the referenced table
AttSizeStepAnyTarget(st, t, a) ==
    LET att == tables[t].atts[a]
        p   == <<t, a>>
        ap  == st.params[p]
    IN  IF att.FK # 0
        THEN LET f   == att.FK
                 k   == KeyOf(att)
                 st1 == [st EXCEPT !.size = Put(st.size, p, tsize[f])]
             IN  IF k = 0
                 THEN [st1 EXCEPT !.err = IF att.FKatt # "" THEN "KeyError"
                                          ELSE "no PK found in table"]
                 ELSE IF ~isUnique(tables[f].atts[k])
                 THEN [st1 EXCEPT !.err = "foreign key target must be unique"]
                 ELSE IF Has(ap, "prefix")
                 THEN [st1 EXCEPT !.err = "no prefix on foreign key"]
                 ELSE [st1 EXCEPT !.params[p] =
                          TransferParams(ap, st.params[<<f, k>>],
                                         tables[f].atts[k].name)]
        ELSE IF Has(ap, "size")
        THEN [st EXCEPT !.size = Put(st.size, p, ap.size)]
        ELSE [st EXCEPT !.size =
                 Put(st.size, p, PyInt(tsize[t] * ap.mult, MultOne))]

\* the body of the loop for attribute a of table t; st = [params, size, err]
AttSizeStep(st, t, a) ==
    LET att == tables[t].atts[a]
        p   == <<t, a>>
        ap  == st.params[p]
    IN  IF att.FK # 0
        THEN LET f   == att.FK
                 k   == KeyOf(att)
                 st1 == [st EXCEPT !.size = Put(st.size, p, tsize[f])]
             IN  IF tskip[f] # 0
                 THEN [st1 EXCEPT !.err = "reference on table with skipped tuples"]
                 ELSE IF k = 0
                 THEN [st1 EXCEPT !.err = IF att.FKatt # "" THEN "KeyError"
                                          ELSE "no PK found in table"]
                 ELSE IF ~isUnique(tables[f].atts[k])
                 THEN [st1 EXCEPT !.err = "foreign key target must be unique"]
                 ELSE IF Has(ap, "prefix")
                 THEN [st1 EXCEPT !.err = "no prefix on foreign key"]
                 ELSE [st1 EXCEPT !.params[p] =
                          TransferParams(ap, st.params[<<f, k>>],
                                         tables[f].atts[k].name)]
        ELSE IF Has(ap, "size")
        THEN [st EXCEPT !.size = Put(st.size, p, ap.size)]
        ELSE [st EXCEPT !.size =
                 Put(st.size, p, PyInt(tsize[t] * ap.mult, MultOne))]

RECURSIVE AttSizeLoop(_, _)
\* the loop from position i on; an exception ends it
AttSizeLoop(st, i) ==
    IF i > Len(Positions) \/ st.err # "" THEN st
    ELSE AttSizeLoop(AttSizeStep(st, Positions[i][1], Positions[i][2]), i + 1)

SetAttSizes ==
    /\ pc = "asizes"
    /\ LET st == AttSizeLoop([params |-> aparams, size |-> asize, err |-> ""], 1)
       IN  /\ aparams' = st.params
           /\ asize' = st.size
           /\ err' = st.err
           /\ pc' = IF st.err = "" THEN "gens" ELSE "failed"
    /\ UNCHANGED <<scan, draws, env>>
    /\ UNCHANGED <<schema, opts, tables, tsize, tskip, gen, gi, ti, row, tries,
                   ustuff, attempts, calls, nulls, tuples, emitted, restart>>

---------------------------------------------------------------------------
(* DATA GENERATORS *)

\* Attribute.gen = None
NoGen == [kind |-> "none"]

\* NullRate without the test of isNullable
NullRateOfAny(att, params, tparams) ==
    IF Has(params, "null") THEN params.null
    ELSE IF Has(tparams, "null") THEN tparams.null
    ELSE opts.null

\* NullRate with the table directive ahead of the attribute directive
NullRateTableFirst(att, params, tparams) ==
    IF isNullable(att)
    THEN IF Has(tparams, "null") THEN tparams.null
         ELSE IF Has(params, "null") THEN params.null
         ELSE opts.null
    ELSE 0

\* Generator.__init__: the null probability of the generator of att
NullRate(att, params, tparams) ==
    IF isNullable(att)
    THEN IF Has(params, "null") THEN params.null
         ELSE IF Has(tparams, "null") THEN tparams.null
         ELSE opts.null
    ELSE 0

\* IntGenerator.__init__: generator type depending on attribute
IntType(att, params) ==
    IF Has(params, "gen") THEN params.gen
    ELSE IF isUnique(att) THEN "serial" ELSE "uniform"

\* IntGenerator.__init__: offset from different sources; the foreign key case
\* needs the primary key pk of the referenced table
IntOffset(att, params, pk) ==
    IF Has(params, "offset") THEN params.offset
    ELSE IF att.isPK /\ Truthy(opts, "offset") THEN opts.offset
    ELSE IF att.FK # 0
         THEN Get(aparams[<<att.FK, pk>>], "offset",
                  IF Truthy(opts, "offset") THEN opts.offset ELSE 1)
    ELSE 1

\* IntGenerator.setSize: whether to mangle shift & step
Mangle(params) ==
    IF ~Has(params, "nomangle") THEN opts.mangle \/ Has(params, "mangle")
    ELSE FALSE

\* Steps without the replacement of a step that is not coprime with size
StepsKept(params, size) ==
    IF Truthy(params, "step") THEN {params.step}
    ELSE IF Mangle(params) THEN {primes[i] : i \in 1..Len(primes)}
    ELSE {1}

\* IntGenerator.setSize: the steps the generator may get
Steps(params, size) ==
    LET given == IF Truthy(params, "step") THEN {params.step}
                 ELSE IF Mangle(params)
                      THEN {primes[i] : i \in 1..Len(primes)}
                      ELSE {1}
    IN  {IF gcd(size, s) # 1 THEN 1 ELSE s : s \in given}

\* IntGenerator.setSize: the shifts the generator may get
Shifts(params, size) ==
    IF Has(params, "shift") THEN {params.shift}
    ELSE IF Mangle(params) THEN 0..(size - 1)
    ELSE {0}

\* IntGenerator.setSize: the exception raised for the generator parameters
\* that depend on size, "" if none
AlphaError(type, params, size) ==
    IF size <= 1 \/ type \notin {"power", "scale"} THEN ""
    ELSE IF Has(params, "alpha") /\ Has(params, "rate")
    THEN "cannot specify both alpha & rate"
    ELSE IF Has(params, "alpha")
    THEN IF params.alpha > 0 THEN "" ELSE "AssertionError"
    ELSE IF Has(params, "rate")
    THEN IF params.rate > 0 /\ params.rate < RateOne THEN ""
         ELSE "AssertionError"
    ELSE ""

\* one call of a random source: randrange(0, n) or random() compared with a
\* rate, and what came of it
Draw(call, arg, out) == [call |-> call, arg |-> arg, out |-> out]

\* IntGenerator.setSize: the calls of self.random for a step st and a shift sh
SizeDraws(params, size, st, sh) ==
    (IF ~Truthy(params, "step") /\ Mangle(params)
     THEN << Draw("randrange", Len(primes), st) >> ELSE << >>)
    \o
    (IF ~Has(params, "shift") /\ Mangle(params)
     THEN << Draw("randrange", size, sh) >> ELSE << >>)

\* IntGenerator.setSize(size) on generator g: the generators it may leave
setSize(g, params, size) ==
    IF size = 0 THEN {[g |-> Put(g, "size", 0), err |-> "", draws |-> << >>]}
    ELSE IF size < 0 /\ ~Has(params, "shift") /\ Mangle(params)
    THEN \* randrange(0, size) on an empty range
         {[g |-> Update(g, [size |-> size, step |-> st]),
           err |-> "ValueError",
           draws |-> SizeDraws(Put(params, "shift", 0), size, st, 0)] :
             st \in Steps(params, size)}
    ELSE {[g |-> Update(g, [size |-> size, step |-> st, shift |-> sh]),
           err |-> AlphaError(g.type, params, size),
           draws |-> SizeDraws(params, size, st, sh)] :
             st \in Steps(params, size), sh \in Shifts(params, size)}

\* shift as IntGenerator.__init__ leaves it once setSize has returned
InitShift(g) == 0

\* IntGenerator(att): the outcomes [g, err] of the construction
IntGenerator(att, params, tparams, size) ==
    LET nullp == NullRate(att, params, tparams)
        pk == IF att.FK # 0 THEN getPK(att.FK) ELSE 0
        g0 == [kind |-> "int", nullp |-> nullp, gens |-> 0,
               type |-> IntType(att, params)]
    IN  IF nullp < 0 \/ nullp > RateOne
        THEN {[g |-> NoGen, err |-> "AssertionError", draws |-> << >>]}
        ELSE IF ~Has(params, "offset") /\ ~(att.isPK /\ Truthy(opts, "offset"))
                /\ att.FK # 0 /\ pk = 0
        THEN {[g |-> NoGen, err |-> "no PK found in table", draws |-> << >>]}
        ELSE {[g |-> IF o.err = "" THEN Put(o.g, "shift", InitShift(o.g))
                     ELSE NoGen,
               err |-> o.err, draws |-> o.draws] :
                o \in setSize(Put(g0, "offset", IntOffset(att, params, pk)),
                              params, size)}

\* db.dateType
dateType(type) == type = "date"

\* A date is the number of its day: DateGenerator.parse gives the day a start
\* or end directive names, and date.today() is the day of the run.

\* DateRef that is the day of the run whatever the directives
DateRefToday(params, today) == today

\* DateGenerator.__init__: the reference date
DateRef(params, today) ==
    IF Has(params, "start") THEN params.start
    ELSE IF Has(params, "end") THEN params.end
    ELSE today

\* DateDir that is forward whatever the directives
DateDirForward(params) == 1

\* DateGenerator.__init__: the direction, forward from start, else backward
DateDir(params) == IF Has(params, "start") THEN 1 ELSE -1

\* DateGenerator(att): the outcomes [g, err, draws] of the construction; the
\* size is set again when both start and end are given
DateGenerator(att, params, tparams, size) ==
    LET prec == Get(params, "prec", 1)
        dated(g) == Update(g, [kind |-> "date", offset |-> 0,
                               ref |-> DateRef(params, env.today),
                               dir |-> DateDir(params), prec |-> prec])
    IN  UNION {
          IF o.err # "" THEN {o}
          ELSE IF Has(params, "start") /\ Has(params, "end")
          THEN IF prec = 0
               THEN {[g |-> NoGen, err |-> "ZeroDivisionError", draws |-> o.draws]}
               ELSE {[g |-> IF r.err = "" THEN r.g ELSE NoGen, err |-> r.err,
                      draws |-> o.draws \o r.draws] :
                       r \in setSize(dated(o.g), params,
                                     ((params.end - params.start) \div prec) + 1)}
          ELSE {[g |-> dated(o.g), err |-> "", draws |-> o.draws]} :
          o \in IntGenerator(att, params, tparams, size)}

\* db.textType, for the text type of the model
textType(type) == type = "text"

\* db.floatType
floatType(type) ==
    type \in {"real", "float", "double precision", "numeric", "decimal"}

\* db.blobType
blobType(type) == type \in {"bytea", "blob"}

\* the generator could not be constructed
Failed(e, ds) == [g |-> NoGen, err |-> e, draws |-> ds]

\* StringGenerator.__init__: length and lenvar of a column of type text
StringLength(params) == Get(params, "length", 12)

StringLenvar(params) == Get(params, "lenvar", StringLength(params) \div 4)

\* StringGenerator(att): the outcomes [g, err, draws] of the construction
StringGenerator(att, params, tparams, size) ==
    {IF o.err # "" THEN o
     ELSE IF StringLength(params) < StringLenvar(params)
     THEN Failed("AssertionError", o.draws)
     ELSE [o EXCEPT !.g = Update(@, [kind |-> "string",
                                     prefix |-> Get(params, "prefix", att.name),
                                     length |-> StringLength(params),
                                     lenvar |-> StringLenvar(params)])] :
       o \in IntGenerator(att, params, tparams, size)}

\* the module random, seeded by random.seed(opts.seed)
shared == <<0, 0>>

\* the source of the calls IntGenerator.setSize makes for the generator of
\* the characters of attribute att: the Random() of the seed of the macro
CharSource(att) == << 0, att.number >>

\* IntGenerator(att=None, params=macro), setSize(len(chars)) and offset = 0:
\* the generators of the characters, [g, err, draws]
CharGenerator(att, macro, chars) ==
    LET c0 == [kind |-> "int", nullp |-> 0, gens |-> 0,
               type |-> Get(macro, "gen", "uniform"),
               offset |-> Get(macro, "offset", 1), step |-> 1, shift |-> 0]
    IN  {[g |-> Put(r.g, "offset", 0), err |-> r.err,
          draws |-> [i \in 1..Len(r.draws) |->
                        [src |-> IF Has(macro, "seed") THEN CharSource(att)
                                 ELSE shared,
                         call |-> r.draws[i].call, arg |-> r.draws[i].arg,
                         out |-> r.draws[i].out]]] :
           r \in setSize(c0, macro, Len(chars))}

\* CharsGenerator(att, chars): the outcomes of the construction; memo holds,
\* for each index n the cgen source was seeded with, the answers it gave
CharsGenerator(att, params, tparams, size) ==
    UNION {
      IF o.err # "" THEN {o}
      ELSE IF isUnique(att)
      THEN {Failed("chars generator does not support UNIQUE", o.draws)}
      ELSE IF Has(params, "cgen") /\ params.cgen \notin DOMAIN scan.macros
      THEN {Failed("KeyError", o.draws)}
      ELSE {IF c.err # "" THEN Failed(c.err, o.draws \o c.draws)
            ELSE [g |-> Update(o.g, [kind |-> "chars", cgen |-> c.g,
                                     memo |-> EmptyDict]),
                  err |-> "", draws |-> o.draws \o c.draws] :
              c \in CharGenerator(att,
                      IF Has(params, "cgen")
                      THEN Payload(AttributeParams, scan.macros[params.cgen])
                      ELSE [gen |-> "uniform"],
                      params.chars)} :
      o \in StringGenerator(att, params, tparams, size)}

\* spec[1:].split(',') for the word lists of the schemas explored; any other
\* spec names a file, which does not exist
Words(spec) ==
    IF spec = ":a" THEN << "a" >>
    ELSE IF spec = ":a,b" THEN << "a", "b" >>
    ELSE IF spec = ":a,b,c" THEN << "a", "b", "c" >>
    ELSE << >>

\* WordGenerator.__init__: the spec is an inline list
InlineWords(spec) == spec \in {":a", ":a,b", ":a,b,c"}

\* WordGenerator.setSize, after StringGenerator.setSize: do not access the
\* list of L words out of bounds
Clamp(g, L) ==
    LET size == IF g.size > L THEN L ELSE g.size
    IN  Update(g, [size |-> size,
                   offset |-> IF g.offset + size > L THEN 0 ELSE g.offset])

\* WordGenerator(att, spec): the outcomes of the construction
WordGenerator(att, params, tparams, size) ==
    LET words == Words(params.word)
        L == Len(words)
    IN  IF ~InlineWords(params.word) THEN {Failed("IOError", << >>)}
        ELSE UNION {
          IF o.err # "" THEN {o}
          ELSE {IF r.err # "" THEN Failed(r.err, o.draws \o r.draws)
                ELSE [g |-> Update(Clamp(r.g, L),
                                   [kind |-> "word", words |-> words]),
                      err |-> "", draws |-> o.draws \o r.draws] :
                  r \in setSize(Clamp(o.g, L), params,
                                Get(params, "size", L))} :
          o \in StringGenerator(att, params, tparams, size)}

\* TextGenerator(att, spec): the outcomes of the construction
TextGenerator(att, params, tparams, size) ==
    {IF o.err # "" THEN o
     ELSE IF isUnique(att)
     THEN Failed("text generator does not support UNIQUE", o.draws)
     ELSE IF Get(params, "length", 15) < Get(params, "lenvar", 10)
     THEN Failed("AssertionError", o.draws)
     ELSE [o EXCEPT !.g = Update(@, [kind |-> "text",
                                     length |-> Get(params, "length", 15),
                                     lenvar |-> Get(params, "lenvar", 10)])] :
       o \in WordGenerator(att, params, tparams, size)}

\* FloatGenerator.__init__: the generator types
FloatTypes ==
    {"gauss", "beta", "exp", "gamma", "log", "norm", "pareto", "uniform",
     "vonmises", "weibull"}

\* FloatGenerator(att): the outcomes of the construction
FloatGenerator(att, params, tparams) ==
    LET nullp == NullRate(att, params, tparams)
    IN  IF nullp < 0 \/ nullp > RateOne
        THEN {Failed("AssertionError", << >>)}
        ELSE IF Get(params, "gen", "uniform") \notin FloatTypes
        THEN {Failed("unexpected float generator type", << >>)}
        ELSE {[g |-> [kind |-> "float", nullp |-> nullp, gens |-> 0,
                      type |-> Get(params, "gen", "uniform"),
                      alpha |-> Get(params, "alpha", 0),
                      beta |-> Get(params, "beta", 1)],
               err |-> "", draws |-> << >>]}

\* BlobGenerator(att): the outcomes of the construction
BlobGenerator(att, params, tparams) ==
    LET nullp == NullRate(att, params, tparams)
        length == Get(params, "length", 12)
        lenvar == Get(params, "lenvar", length \div 4)
    IN  IF nullp < 0 \/ nullp > RateOne \/ length < lenvar
        THEN {Failed("AssertionError", << >>)}
        ELSE {[g |-> [kind |-> "blob", nullp |-> nullp, gens |-> 0,
                      length |-> length, lenvar |-> lenvar],
               err |-> "", draws |-> << >>]}

\* CREATE DATA GENERATORS per attribute: the outcomes for one attribute.
\* The attribute types of the model are the integer types, date, text, the
\* float types and the blob types; the type= values of the model are those
\* of the generators it has, any other one is taken as an unknown type.
CreateOutcomes(att, params, tparams, size) ==
    IF Has(params, "nogen") THEN {[g |-> NoGen, err |-> "", draws |-> << >>]}
    ELSE IF Has(params, "type")
    THEN IF params.type = "int" THEN IntGenerator(att, params, tparams, size)
         ELSE IF params.type = "float"
         THEN FloatGenerator(att, params, tparams)
         ELSE IF params.type = "date"
         THEN DateGenerator(att, params, tparams, size)
         ELSE IF params.type = "string"
         THEN StringGenerator(att, params, tparams, size)
         ELSE IF params.type \in {"chars", "word", "text"}
              /\ ~Has(params, IF params.type = "chars" THEN "chars" ELSE "word")
         THEN {Failed("KeyError", << >>)}
         ELSE IF params.type = "chars"
         THEN CharsGenerator(att, params, tparams, size)
         ELSE IF params.type = "word"
         THEN WordGenerator(att, params, tparams, size)
         ELSE IF params.type = "text"
         THEN TextGenerator(att, params, tparams, size)
         ELSE IF params.type = "blob"
         THEN BlobGenerator(att, params, tparams)
         ELSE {Failed("AssertionError", << >>)}
    ELSE IF Has(params, "text")
    THEN IF ~textType(att.type) \/ ~Has(params, "word")
         THEN {Failed("AssertionError", << >>)}
         ELSE TextGenerator(att, params, tparams, size)
    ELSE IF Has(params, "word")
    THEN IF ~textType(att.type) THEN {Failed("AssertionError", << >>)}
         ELSE WordGenerator(att, params, tparams, size)
    ELSE IF Has(params, "chars")
    THEN IF ~textType(att.type) THEN {Failed("AssertionError", << >>)}
         ELSE CharsGenerator(att, params, tparams, size)
    ELSE IF intType(att.type) THEN IntGenerator(att, params, tparams, size)
    ELSE IF textType(att.type) THEN StringGenerator(att, params, tparams, size)
    ELSE IF dateType(att.type) THEN DateGenerator(att, params, tparams, size)
    ELSE IF floatType(att.type) THEN FloatGenerator(att, params, tparams)
    ELSE IF blobType(att.type) THEN BlobGenerator(att, params, tparams)
    ELSE {[g |-> NoGen, err |-> "", draws |-> << >>]}

\* Generator.__init__: self.random of the generator of the attribute at p,
\* a random.Random() of its own when the attribute has a seed directive
Source(p) == IF Has(aparams[p], "seed") THEN p ELSE shared

\* the calls ds, made on source src
From(src, ds) ==
    [i \in 1..Len(ds) |->
        [src |-> IF "src" \in DOMAIN ds[i] THEN ds[i].src ELSE src,
         call |-> ds[i].call, arg |-> ds[i].arg, out |-> ds[i].out]]

CreateGenerator ==
    /\ pc = "gens"
    /\ IF gi > Len(Positions)
       THEN /\ pc' = "fill"
            /\ ti' = 1
            /\ row' = 0
            /\ UNCHANGED <<err, gen, gi, draws>>
       ELSE LET p == Positions[gi]
                att == tables[p[1]].atts[p[2]]
            IN  \E o \in CreateOutcomes(att, aparams[p], tables[p[1]].params,
                                        asize[p]) :
                    /\ gen' = Put(gen, p, o.g)
                    /\ err' = o.err
                    /\ pc' = IF o.err = "" THEN "gens" ELSE "failed"
                    /\ gi' = gi + 1
                    /\ draws' = draws \o From(Source(p), o.draws)
                    /\ UNCHANGED <<ti, row>>
    /\ UNCHANGED <<scan, env>>
    /\ UNCHANGED <<schema, opts, tables, aparams, tsize, tskip, asize, tries,
                   ustuff, attempts, calls, nulls, tuples, emitted, restart>>

---------------------------------------------------------------------------
(* Generator.getData and IntGenerator.genData *)

\* whether "self.nullp != 0.0 and self.random.random() < self.nullp" may be
\* true, random() being in [0, 1)
NullDraws(nullp) ==
    IF nullp = 0 THEN {FALSE}
    ELSE IF nullp >= RateOne THEN {TRUE}
    ELSE {TRUE, FALSE}

\* Bases in which serand draws at random from the first call on
BasesAtRandom(g) ==
    IF g.size = 1 THEN {0}
    ELSE IF g.type = "serial" THEN {g.gens}
    ELSE IF g.type \in {"uniform", "serand", "power", "scale"}
    THEN 0..(g.size - 1)
    ELSE {}

\* IntGenerator.genData: the bases the generator may draw; {} when the
\* generator type is unexpected
Bases(g) ==
    IF g.size = 1 THEN {0}
    ELSE IF g.type = "serial" \/ (g.type = "serand" /\ g.gens < g.size)
    THEN {g.gens}
    ELSE IF g.type \in {"uniform", "serand"}
    THEN 0..(g.size - 1)
    ELSE IF g.type \in {"power", "scale"}
    THEN IF g.size > 0 THEN 0..(g.size - 1) ELSE (g.size + 1)..0
    ELSE {}

\* Value without the reduction modulo size
ValueNoWrap(g, base) == g.offset + g.shift + g.step * base

\* IntGenerator.genData: the value returned for a base
Value(g, base) == g.offset + PyMod(g.shift + g.step * base, g.size)

\* db.dateValue of day d
DateVal(d) == << d, "date" >>

\* self.words[v]: the word at index v, counted from the end when v is
\* negative; << >> for an IndexError
WordAt(words, v) ==
    IF v >= 0 /\ v < Len(words) THEN << words[v + 1] >>
    ELSE IF v < 0 /\ v >= -Len(words) THEN << words[Len(words) + v + 1] >>
    ELSE << >>

\* genData of the generator's class on what IntGenerator.genData returned
Output(g, v) ==
    IF g.kind = "date" THEN DateVal(g.ref + g.dir * g.prec * v)
    ELSE IF g.kind \in {"word", "text"} THEN << WordAt(g.words, v)[1], "word" >>
    ELSE IntVal(v)

\* IntGenerator.genData, then genData of the classes that return one value
\* for the integer drawn: the outcomes [null, base, val, err]
IntData(g) ==
    IF g.size = 0
    THEN {[null |-> FALSE, base |-> 0, val |-> null,
           err |-> "cannot draw from empty set"]}
    ELSE IF g.size < 0 /\ g.type \in {"uniform", "serand"}
    THEN \* randrange(0, size) on an empty range
         {[null |-> FALSE, base |-> 0, val |-> null, err |-> "ValueError"]}
    ELSE IF Bases(g) = {}
    THEN {[null |-> FALSE, base |-> 0, val |-> null,
           err |-> "unexpected int generator type"]}
    ELSE {IF g.kind \in {"word", "text"} /\ WordAt(g.words, Value(g, b)) = << >>
          THEN [null |-> FALSE, base |-> b, val |-> null, err |-> "IndexError"]
          ELSE [null |-> FALSE, base |-> b, val |-> Output(g, Value(g, b)),
                err |-> ""] : b \in Bases(g)}

\* the calls of self.random IntGenerator.genData makes for outcome o
BaseDraws(g, o) ==
    IF o.null \/ o.err # "" \/ g.size <= 1 THEN << >>
    ELSE IF g.type = "serial" \/ (g.type = "serand" /\ g.gens < g.size)
    THEN << >>
    ELSE IF g.type \in {"uniform", "serand"}
    THEN << Draw("randrange", g.size, o.base) >>
    ELSE << Draw(g.type, g.size, o.base) >>

\* StringGenerator.baseData: the lengths the string may get; which one
\* depends on hash(s)
Lengths(g) ==
    IF g.lenvar # 0 THEN (g.length - g.lenvar)..(g.length + g.lenvar)
    ELSE {g.length}

\* StringGenerator.genData: the string for index n is the prefix followed by
\* _n as often as needed, cut to a length; it is named by these three
StringData(g) ==
    UNION {IF o.err # "" THEN {o}
           ELSE {[o EXCEPT !.val = << << g.prefix, o.val[1], len >>, "string" >>] :
                    len \in Lengths(g)} :
           o \in IntData(g)}

\* whether genData of the generator c of the characters calls c.random
Drawn(c) ==
    ~(c.size = 1 \/ c.type = "serial" \/ (c.type = "serand" /\ c.gens < c.size))

RECURSIVE lenData(_, _)
\* CharsGenerator.lenData once cgen.random is seeded: i more characters, each
\* chars[cgen.getData()], a character being named by its index in chars;
\* st = [s, cgen, k, memo, err], k the number of calls made on cgen.random
\* since the seed and memo the answers this seed is known to give
lenData(i, st) ==
    IF i <= 0 \/ st.err # "" THEN {st}
    ELSE LET c == st.cgen
         IN  IF c.size = 0
             THEN {[st EXCEPT !.err = "cannot draw from empty set"]}
             ELSE IF c.size < 0 /\ c.type \in {"uniform", "serand"}
             THEN {[st EXCEPT !.err = "ValueError"]}
             ELSE IF Bases(c) = {}
             THEN {[st EXCEPT !.err = "unexpected int generator type"]}
             ELSE LET known == Drawn(c) /\ st.k < Len(st.memo)
                      bs == IF known THEN {st.memo[st.k + 1]} ELSE Bases(c)
                  IN  UNION {lenData(i - 1,
                                [s    |-> Append(st.s, Value(c, b)),
                                 cgen |-> [c EXCEPT !.gens = @ + 1],
                                 k    |-> IF Drawn(c) THEN st.k + 1 ELSE st.k,
                                 memo |-> IF Drawn(c) /\ ~known
                                          THEN Append(st.memo, b) ELSE st.memo,
                                 err  |-> ""]) : b \in bs}

\* CharsGenerator.lenData(length, n): cgen.random.seed of n, then the
\* characters
CharsOf(g, n) ==
    lenData(g.length + g.lenvar,
            [s |-> << >>, cgen |-> g.cgen, k |-> 0,
             memo |-> Get(g.memo, n, << >>), err |-> ""])

\* CharsGenerator.genData: baseData of the index drawn
CharsData(g) ==
    UNION {IF o.err # "" THEN {o}
           ELSE UNION {IF st.err # ""
                       THEN {[null |-> FALSE, base |-> o.base, val |-> null,
                              err |-> st.err]}
                       ELSE {[null |-> FALSE, base |-> o.base,
                              val |-> << SubSeq(st.s, 1, len), "chars" >>,
                              err |-> "",
                              after |-> [g EXCEPT !.gens = @ + 1,
                                                  !.cgen = st.cgen,
                                                  !.memo = Put(@, o.val[1],
                                                               st.memo)]] :
                               len \in Lengths(g)} :
                       st \in CharsOf(g, o.val[1])} :
           o \in IntData(g)}

RECURSIVE TextWords(_, _)
\* k more calls of WordGenerator.genData; st = [g, ws, draws, err]
TextWords(k, st) ==
    IF k <= 0 \/ st.err # "" THEN {st}
    ELSE UNION {TextWords(k - 1,
                   [g     |-> IF o.err = "" THEN [st.g EXCEPT !.gens = @ + 1]
                              ELSE st.g,
                    ws    |-> IF o.err = "" THEN Append(st.ws, o.val[1])
                              ELSE st.ws,
                    draws |-> st.draws \o BaseDraws(st.g, o),
                    err   |-> o.err]) :
                o \in IntData(st.g)}

\* TextGenerator.genData: the number of words, then the words
TextData(g) ==
    UNION {{[null |-> FALSE, base |-> 0,
             val |-> IF st.err = "" THEN << st.ws, "text" >> ELSE null,
             err |-> st.err, after |-> st.g, draws |-> st.draws] :
              st \in TextWords(len,
                        [g |-> g, ws |-> << >>, err |-> "",
                         draws |-> IF g.lenvar # 0
                                   THEN << Draw("randrange", 2 * g.lenvar + 1,
                                                len - (g.length - g.lenvar)) >>
                                   ELSE << >>])} :
           len \in Lengths(g)}

\* the floats of the model are the whole numbers from alpha to beta
FloatValues(g) ==
    IF g.alpha <= g.beta THEN g.alpha..g.beta ELSE g.beta..g.alpha

\* FloatGenerator.genData
FloatData(g) ==
    {[null |-> FALSE, base |-> 0, val |-> << v, "float" >>, err |-> "",
      after |-> g, draws |-> << Draw(g.type, g.beta, v) >>] :
        v \in FloatValues(g)}

\* BlobGenerator.genData: randint for the length, then randrange(256) for
\* each byte, the bytes of the model being 0..MaxByte
BlobData(g) ==
    UNION {{[null |-> FALSE, base |-> 0, val |-> << bs, "blob" >>, err |-> "",
             after |-> g,
             draws |-> << Draw("randint", 2 * g.lenvar + 1, len) >> \o
                       [i \in 1..len |-> Draw("randrange", MaxByte + 1, bs[i])]] :
              bs \in [1..len -> 0..MaxByte]} :
           len \in {n \in (g.length - g.lenvar)..(g.length + g.lenvar) : n >= 0}}

\* genData of the class of generator g
genData(g) ==
    IF g.kind = "float" THEN FloatData(g)
    ELSE IF g.kind = "blob" THEN BlobData(g)
    ELSE IF g.kind = "text" THEN TextData(g)
    ELSE IF g.kind = "chars" THEN CharsData(g)
    ELSE IF g.kind = "string" THEN StringData(g)
    ELSE IntData(g)

\* Generator.getData: the outcomes [null, base, val, err] of one call
GetData(g) ==
    {[null |-> TRUE, base |-> 0, val |-> null, err |-> ""] :
        n \in NullDraws(g.nullp) \ {FALSE}}
    \cup
    (IF FALSE \notin NullDraws(g.nullp) THEN {} ELSE genData(g))

\* the calls of self.random in a getData call of outcome o: random() for the
\* null rate, then those of genData
DataDraws(g, o) ==
    (IF g.nullp # 0 THEN << Draw("random", g.nullp, o.null) >> ELSE << >>)
    \o
    (IF "draws" \in DOMAIN o THEN o.draws ELSE BaseDraws(g, o))

\* AfterCall that counts the calls that return NULL too
AfterCallCounting(g, o) ==
    IF o.err # "" THEN g ELSE [g EXCEPT !.gens = g.gens + 1]

\* the generator after a call with outcome o: genData updates the counter
AfterCall(g, o) ==
    IF o.null \/ o.err # "" THEN g
    ELSE IF "after" \in DOMAIN o THEN o.after
    ELSE [g EXCEPT !.gens = g.gens + 1]

RECURSIVE DrawTuple(_, _, _)
\* l = [a.getData() for a in filter(lambda x: x.gen, self.att_list)] from
\* attribute a of table t on; st = [l, gen, calls, nulls, draws, err]
DrawTuple(t, a, st) ==
    IF a > NA(t) \/ st.err # "" THEN {st}
    ELSE IF st.gen[<<t, a>>] = NoGen THEN DrawTuple(t, a + 1, st)
    ELSE UNION { DrawTuple(t, a + 1,
                    [l     |-> IF o.err = "" THEN Append(st.l, o.val) ELSE st.l,
                     gen   |-> [st.gen EXCEPT ![<<t, a>>] = AfterCall(@, o)],
                     calls |-> IF o.null \/ o.err # "" THEN st.calls
                               ELSE [st.calls EXCEPT ![<<t, a>>] =
                                        Append(@, <<o.base, o.val[1]>>)],
                     nulls |-> IF o.null
                               THEN [st.nulls EXCEPT ![<<t, a>>] = @ + 1]
                               ELSE st.nulls,
                     draws |-> st.draws \o
                               From(Source(<<t, a>>),
                                    DataDraws(st.gen[<<t, a>>], o)),
                     err   |-> o.err]) :
                 o \in GetData(st.gen[<<t, a>>]) }

---------------------------------------------------------------------------
(* Table.getData *)

\* su = str(nu) + ':' + str([l[i-1] for i in u]) for constraint nu of table t
UKey(t, nu, l) ==
    <<nu, [j \in 1..Len(tables[t].unique[nu]) |-> l[tables[t].unique[nu][j]]]>>

\* l[i-1] raises IndexError for some i of constraint nu
UBad(t, nu, l) ==
    \E j \in 1..Len(tables[t].unique[nu]) : tables[t].unique[nu][j] > Len(l)

\* the first constraint, if any, at which the for loop stops: an IndexError
\* or a key already in ustuff; number of constraints + 1 when it runs through
UStop(t, l, seen) ==
    LET n == Len(tables[t].unique)
        stops == {nu \in 1..n : UBad(t, nu, l) \/ UKey(t, nu, l) \in seen}
    IN  IF stops = {} THEN n + 1
        ELSE CHOOSE nu \in stops : \A m \in stops : nu <= m

\* UKeys that records no key
UKeysNone(t, l) == {}

\* the keys recorded for a tuple that collides nowhere
UKeys(t, l) == {UKey(t, nu, l) : nu \in 1..Len(tables[t].unique)}

\* the call of random.random() in the test of skip, for a tuple inserted
\* or not
SkipDraws(skip, ins) ==
    IF skip = 0 THEN << >> ELSE << Draw("random", skip, ~ins) >>

\* InsertDraws that inserts no tuple
InsertDrawsNever(skip) == {FALSE}

\* "not t.skip or not random.random() < t.skip": whether the tuple may be inserted
InsertDraws(skip) ==
    IF skip = 0 THEN {TRUE}
    ELSE IF skip >= RateOne THEN {FALSE}
    ELSE {TRUE, FALSE}

---------------------------------------------------------------------------
(* CALL GENERATORS on each table *)

\* head of "for t in tables" and of "for i in range(t.size)"
FillLoop ==
    /\ pc = "fill"
    /\ IF ti > NT
       THEN /\ pc' = "restart"
            /\ UNCHANGED <<ti, row, tries, attempts>>
       ELSE IF Has(tables[ti].params, "nogen") \/ tsize[ti] = 0
               \/ row >= tsize[ti]
       THEN /\ ti' = ti + 1
            /\ row' = 0
            /\ UNCHANGED <<pc, tries, attempts>>
       ELSE /\ pc' = "getData"
            /\ tries' = opts.tries
            /\ attempts' = 0
            /\ UNCHANGED <<ti, row>>
    /\ UNCHANGED <<scan, draws, env>>
    /\ UNCHANGED <<err, schema, opts, tables, aparams, tsize, tskip, asize,
                   gen, gi, ustuff, calls, nulls, tuples, emitted, restart>>

\* one iteration of "while tries" in Table.getData, or its end; a returned
\* tuple is inserted or skipped and the for loop moves on
GetDataAttempt ==
    /\ pc = "getData"
    /\ (tries < 0) => (attempts < MaxAttempts)
    /\ IF tries = 0
       THEN /\ pc' = "failed"
            /\ err' = "cannot build tuple for table"
            /\ UNCHANGED <<gen, row, tries, ustuff, attempts, calls, nulls, tuples,
                           emitted, draws>>
       ELSE \E st \in DrawTuple(ti, 1, [l |-> << >>, gen |-> gen,
                                        calls |-> calls, nulls |-> nulls,
                                        draws |-> draws, err |-> ""]) :
            LET stop == UStop(ti, st.l, ustuff[ti])
                n == Len(tables[ti].unique)
            IN  /\ gen' = st.gen
                /\ calls' = st.calls
                /\ nulls' = st.nulls
                /\ tries' = tries - 1
                /\ attempts' = attempts + 1
                /\ IF st.err # ""
                   THEN /\ pc' = "failed"
                        /\ err' = st.err
                        /\ draws' = st.draws
                        /\ UNCHANGED <<row, ustuff, tuples, emitted>>
                   ELSE IF stop <= n /\ UBad(ti, stop, st.l)
                   THEN /\ pc' = "failed"
                        /\ err' = "IndexError"
                        /\ draws' = st.draws
                        /\ UNCHANGED <<row, ustuff, tuples, emitted>>
                   ELSE IF stop <= n
                   THEN /\ draws' = st.draws
                        /\ UNCHANGED <<pc, err, row, ustuff, tuples, emitted>>
                   ELSE /\ ustuff' = [ustuff EXCEPT
                                         ![ti] = @ \cup UKeys(ti, st.l)]
                        /\ tuples' = [tuples EXCEPT ![ti] = Append(@, st.l)]
                        /\ \E ins \in InsertDraws(tskip[ti]) :
                              /\ emitted' = IF ins
                                            THEN [emitted EXCEPT
                                                    ![ti] = Append(@, st.l)]
                                            ELSE emitted
                              /\ draws' = st.draws \o
                                    From(shared, SkipDraws(tskip[ti], ins))
                        /\ row' = row + 1
                        /\ pc' = "fill"
                        /\ UNCHANGED err
    /\ UNCHANGED <<scan, env>>
    /\ UNCHANGED <<schema, opts, tables, aparams, tsize, tskip, asize, gi, ti,
                   restart>>

---------------------------------------------------------------------------
(* RESTART SEQUENCES *)

\* the serial attributes of the tables without nogen, in order
SerialPositions ==
    SelectSeq(Positions,
              LAMBDA p : /\ ~Has(tables[p[1]].params, "nogen")
                         /\ isSerial(tables[p[1]].atts[p[2]]))

\* a.gen.offset + a.gen.size
RestartValue(g) == g.offset + g.size

\* a.gen has no offset or no size: AttributeError
NoRestart(g) == ~Has(g, "offset") \/ ~Has(g, "size")

RestartSequences ==
    /\ pc = "restart"
    /\ LET sp == SerialPositions
           bad == {i \in 1..Len(sp) : NoRestart(gen[sp[i]])}
           stop == IF bad = {} THEN Len(sp) + 1
                   ELSE CHOOSE i \in bad : \A j \in bad : i <= j
       IN  /\ restart' = [p \in {sp[i] : i \in 1..(stop - 1)} |->
                             RestartValue(gen[p])]
           /\ pc' = IF bad = {} THEN "done" ELSE "failed"
           /\ err' = IF bad = {} THEN err ELSE "AttributeError"
    /\ UNCHANGED <<scan, draws, env>>
    /\ UNCHANGED <<schema, opts, tables, aparams, tsize, tskip, asize, gen,
                   gi, ti, row, tries, ustuff, attempts, calls, nulls, tuples,
                   emitted>>

---------------------------------------------------------------------------
(* The runs explored: options, schema-level directives and scanned tables *)

\* the directive sets D, each with or without key k set to a value of S
Opt(D, k, S) == D \cup {Put(d, k, v) : d \in D, v \in S}

\* the argparse namespace: store_true and --tries have defaults, the other
\* options are None unless given
Options(given) == Update([mangle |-> FALSE, tries |-> DefaultTries], given)

\* one table of 1..MaxRows rows with one serial column: shapes, sizes, steps
\* and shifts of the integer generator; the column is the primary
\* key, or has no gen directive
IntRuns ==
    {[opts |-> Options([size |-> 2]),
      schema |-> EmptyDict,
      tables |-> << Table("t", [size |-> n],
                      << Attribute("id", 1, "serial", x.pk, FALSE, FALSE, 0, "",
                                   x.d) >>,
                      << >>) >>] :
        n \in 1..MaxRows,
        x \in {y \in [pk : BOOLEAN,
                      d : Opt(Opt(Opt(Opt({EmptyDict},
                            "size", 1..MaxSize),
                            "gen", {"serial", "uniform", "serand"}),
                            "step", {-3, 2, 3}),
                            "shift", {2})] :
                  y.pk \/ ~Has(y.d, "gen")}}

\* the same table under the mangle option, schema directive and directives,
\* and under the offset option and schema directive
MangleRuns ==
    {[opts |-> Options(Put(od, "mangle", om)),
      schema |-> sd,
      tables |-> << Table("t", [size |-> 2],
                      << Attribute("id", 1, "serial", TRUE, FALSE, FALSE, 0, "", d) >>,
                      << >>) >>] :
        om \in BOOLEAN,
        od \in Opt({[size |-> 2]}, "offset", {0}),
        sd \in Opt({EmptyDict, [mangle |-> TRUE]}, "offset", {3}),
        d \in Opt(Opt(Opt(
                  {[size |-> MaxSize], [size |-> MaxSize, mangle |-> TRUE],
                   [size |-> MaxSize, nomangle |-> TRUE]},
                  "step", {2}),
                  "shift", {2}),
                  "offset", {5})}

\* one table of n rows over one integer column of domain size s, unique by
\* the column flag (UNIQUE or PRIMARY KEY), by a table-level UNIQUE(a), or
\* both, under --tries from -1 to 2 (2 rows under --tries -1); the table
\* sets the null rate to 0
UniqueRuns ==
    {[opts |-> Options([size |-> 2, tries |-> x.tr]),
      schema |-> EmptyDict,
      tables |-> << Table("t", [size |-> x.n, null |-> 0],
                      << Attribute("a", 1, "integer", m.pk, m.uq, FALSE, 0, "", d) >>,
                      m.unique) >>] :
        x \in {y \in [tr : -1..2, n : 2..MaxRows] : y.tr >= 0 \/ y.n = 2},
        m \in {[pk |-> FALSE, uq |-> TRUE, unique |-> << >>],
               [pk |-> TRUE, uq |-> FALSE, unique |-> << >>],
               [pk |-> FALSE, uq |-> FALSE, unique |-> << <<1>> >>],
               [pk |-> FALSE, uq |-> TRUE, unique |-> << <<1>> >>]},
        d \in Opt({[size |-> s] : s \in 1..(MaxSize - 1)},
                  "gen", {"serial"})}

\* table t with primary key id and unique column u, and table r with a
\* foreign key on t, on t(id) or on t(u)
ForeignKeyRuns ==
    {[opts |-> Options(od),
      schema |-> EmptyDict,
      tables |-> << Table("t", td,
                      << Attribute("id", 1, "serial", TRUE, FALSE, FALSE, 0, "", idd),
                         Attribute("u", 2, "integer", FALSE, TRUE, TRUE, 0, "", ud) >>,
                      << >>),
                    Table("r", [size |-> MaxRows],
                      << Attribute("fk", 1, "integer", FALSE, FALSE, TRUE, 1, fa, fd) >>,
                      << >>) >>] :
        od \in {[size |-> 2]},
        td \in Opt(Opt({EmptyDict}, "size", {MaxSize}), "skip", {50}),
        idd \in Opt({EmptyDict}, "offset", {4}),
        ud \in Opt(Opt({EmptyDict}, "offset", {7}), "mult", {2 * MultOne}),
        fa \in {"", "id", "u"},
        fd \in Opt({EmptyDict}, "gen", {"serand", "uniform"})
               \cup {[prefix |-> "x"], [step |-> 1]}}

\* null rates at the three levels over a column that is nullable, primary
\* key or NOT NULL; and a nullable foreign key on a unique column that has a
\* null directive
NullRuns ==
    {[opts |-> Options(od),
      schema |-> sd,
      tables |-> << Table("t", td,
                      << Attribute("a", 1, "integer", f.pk, FALSE, f.nn, 0, "", ad) >>,
                      << >>) >>] :
        od \in Opt({[size |-> 2]}, "null", {0, 50, RateOne}),
        sd \in Opt({EmptyDict}, "null", {RateOne}),
        td \in Opt({EmptyDict}, "null", {0, 50, RateOne}),
        f \in {[pk |-> FALSE, nn |-> FALSE], [pk |-> TRUE, nn |-> FALSE],
               [pk |-> FALSE, nn |-> TRUE]},
        ad \in Opt({EmptyDict}, "null", {0, 50, RateOne})}
    \cup
    {[opts |-> Options([size |-> 2, null |-> 50]),
      schema |-> EmptyDict,
      tables |-> << Table("t", EmptyDict,
                      << Attribute("id", 1, "serial", TRUE, FALSE, FALSE, 0, "", EmptyDict),
                         Attribute("u", 2, "integer", FALSE, TRUE, FALSE, 0, "", ud) >>,
                      << >>),
                    Table("r", td,
                      << Attribute("fk", 1, "integer", FALSE, FALSE, FALSE, 1, "u", fd) >>,
                      << >>) >>] :
        ud \in Opt({EmptyDict}, "null", {0}),
        td \in Opt({EmptyDict}, "null", {RateOne}),
        fd \in Opt(Opt({EmptyDict}, "null", {50}), "gen", {"serand"})}

\* table and attribute sizes from the size option, the schema-level size,
\* mult and size directives; the primary key is a serial with or without step
SizeRuns ==
    {c \in
        {[opts |-> Options(od),
          schema |-> sd,
          tables |-> << Table("stuff", td,
                          << Attribute("id", 1, "serial", TRUE, FALSE, FALSE, 0, "", ad) >>,
                          << >>) >>] :
            od \in Opt({EmptyDict}, "size", {2, MaxSize}),
            sd \in Opt({EmptyDict}, "size", {MaxSize}),
            td \in Opt(Opt({EmptyDict}, "mult", {1, 3, 2 * MultOne}),
                       "size", {2}),
            ad \in Opt(Opt(Opt({EmptyDict}, "mult", {1, 2 * MultOne}),
                           "size", {2}),
                           "step", {3})} :
        \/ Has(c.opts, "size")
        \/ Has(c.schema, "size")
        \/ Has(c.tables[1].params, "size")}

\* a table of 1 or 2 rows under a skip directive, its column unique by a
\* table-level UNIQUE(a) or not at all
SkipRuns ==
    {[opts |-> Options([size |-> 2]),
      schema |-> EmptyDict,
      tables |-> << Table("t", td,
                      << Attribute("a", 1, "integer", FALSE, FALSE, TRUE, 0, "", ad) >>,
                      u) >>] :
        td \in Opt(Opt({[size |-> 1], [size |-> 2]},
                       "skip", {0, 50, RateOne, RateOne + 50}),
                       "nogen", {TRUE}),
        ad \in {[size |-> 2], [size |-> 3, gen |-> "serial"]},
        u \in {<< >>, << <<1>> >>}}

\* the token sequences of 1 to n tokens of A
Lines(A, n) == UNION {[1..k -> A] : k \in 1..n}

\* a directive line for the schema, the table or the attribute
Directive(scope, tokens) == [scope |-> scope, name |-> "", tokens |-> tokens]

\* a macro definition line
Macro(name, tokens) == [scope |-> "macro", name |-> name, tokens |-> tokens]

\* the schema of the directive scenarios: one table with one integer column,
\* whose directive lines the scanner has still to read
Scanned(lines) ==
    [opts |-> Options([size |-> 2]),
     schema |-> EmptyDict,
     tables |-> << Table("t", EmptyDict,
                     << Attribute("a", 1, "integer", FALSE, FALSE, TRUE, 0, "",
                                  EmptyDict) >>,
                     << >>) >>,
     lines |-> lines]

\* macro m, then one or two directive lines on the attribute that set size
\* and step and use the macro, in every order
MacroRuns ==
    {Scanned(<< Macro("m", mt), Directive("att", l1) >> \o l2) :
        mt \in {<< Tok("int", "size", 2) >>, << Tok("int", "step", 3) >>,
                << Tok("int", "size", 2), Tok("int", "step", 3) >>},
        l1 \in Lines({Tok("int", "size", 1), Tok("int", "step", 2),
                      Tok("str", "use", "m"), Tok("txt", "use", "m")},
                     MaxTokens),
        l2 \in {<< >>,
                << Directive("att", << Tok("int", "size", 3) >>) >>,
                << Directive("att", << Tok("str", "use", "m") >>) >>}}

\* the value of the sample token of each kind
SampleVal(kind, key) ==
    IF kind \in {"txt", "str"} THEN "x"
    ELSE IF kind = "bol" THEN TRUE
    ELSE IF kind = "int" THEN 1
    ELSE IF key = "mult" THEN 3
    ELSE 50

\* one directive line of one token on the schema, the table or the
\* attribute: each kind of value for keys of each type, an unknown key, a
\* token that does not parse and the use of an undefined macro
TypeRuns ==
    {Scanned(<< Directive(sc, << tk >>) >>) :
        sc \in {"schema", "table", "att"},
        tk \in {Tok(kind, key, SampleVal(kind, key)) :
                  kind \in {"txt", "flt", "int", "str", "bol"},
                  key \in {"size", "null", "mult", "nogen", "prefix", "seed",
                           "bogus"}}
               \cup {Tok("bad", "", ""), Tok("str", "use", "undefined")}}

\* macro x, then a directive line of one or two tokens on the attribute
\* among the members of the exclusive pairs, cgen and the use of x
ExclusiveRuns ==
    {Scanned(<< Macro("x", << xt >>), Directive("att", l) >>) :
        xt \in {Tok("bol", "nomangle", TRUE), Tok("flt", "rate", 50),
                Tok("txt", "chars", "ab"), Tok("str", "cgen", "cfr")},
        l \in Lines({Tok("bol", "mangle", TRUE), Tok("bol", "nomangle", TRUE),
                     Tok("flt", "alpha", 2), Tok("flt", "rate", 50),
                     Tok("txt", "word", ":a,b"), Tok("txt", "chars", "ab"),
                     Tok("str", "cgen", "cfr"), Tok("str", "use", "x")},
                    2)}

\* the state when the scanner starts on the directive lines of c, or, for a
\* schema given with its directives merged, when it has read all lines
\* the days a run is made on
Days == {21, 22}

\* a table of 2 rows with a nullable integer column a of null rate 0.5 and a
\* date column d, run on one of two days: with or without the seed option,
\* a seed directive on a, a start directive on d, and UNIQUE(a)
SeedRuns ==
    {[opts |-> Options(od),
      schema |-> EmptyDict,
      today |-> day,
      tables |-> << Table("t", [size |-> 2],
                      << Attribute("a", 1, "integer", FALSE, FALSE, FALSE, 0, "", ad),
                         Attribute("d", 2, "date", FALSE, FALSE, TRUE, 0, "", dd) >>,
                      u) >>] :
        od \in Opt({[size |-> 2, tries |-> 2]}, "seed", {"s"}),
        ad \in Opt({[null |-> 50]}, "seed", {"a"}),
        dd \in Opt({EmptyDict}, "start", {3}),
        u \in {<< >>, << <<1>> >>},
        day \in Days}

\* the runs made twice: those of SeedRuns, and a schema whose seed is given
\* by a schema-level directive, or not given
ReplayRuns ==
    SeedRuns
    \cup {Scanned(<< Directive("schema", << tk >>) >>) :
            tk \in {Tok("txt", "seed", "s"), Tok("int", "size", 2)}}

\* a table of 2 to MaxRows rows with an integer column a of domain size 2
\* and a serial primary key id, alone or after a column x that has a nogen
\* directive, under UNIQUE(a) or under UNIQUE(id) and UNIQUE(a), with
\* --tries 2
KeyRuns ==
    {[opts |-> Options([size |-> 2, tries |-> 2]),
      schema |-> EmptyDict,
      tables |-> << Table("t", [size |-> n],
                      lead \o
                      << Attribute("a", Len(lead) + 1, "integer", FALSE, FALSE,
                                   TRUE, 0, "", [size |-> 2]),
                         Attribute("id", Len(lead) + 2, "serial", TRUE, FALSE,
                                   FALSE, 0, "", EmptyDict) >>,
                      IF both THEN << << Len(lead) + 2 >>, << Len(lead) + 1 >> >>
                      ELSE << << Len(lead) + 1 >> >>) >>] :
        n \in 2..MaxRows,
        lead \in {<< >>,
                  << Attribute("x", 1, "integer", FALSE, FALSE, FALSE, 0, "",
                               [nogen |-> TRUE]) >>},
        both \in BOOLEAN}

\* table t of one row with a serial key, then table r of 2 rows whose
\* integer column a has a size=0 directive and the null rate 0.5, nullable
\* or NOT NULL
EmptyRuns ==
    {[opts |-> Options([size |-> 2]),
      schema |-> EmptyDict,
      tables |-> << Table("t", [size |-> 1],
                      << Attribute("id", 1, "serial", TRUE, FALSE, FALSE, 0, "",
                                   EmptyDict) >>,
                      << >>),
                    Table("r", [size |-> 2],
                      << Attribute("a", 1, "integer", FALSE, FALSE, nn, 0, "",
                                   [size |-> 0, null |-> 50]) >>,
                      << >>) >>] :
        nn \in BOOLEAN}

\* table t of 1 or 2 rows with a serial key that has the mangle directive
\* (step given) or gen=power with a rate, and table r of one row with a
\* foreign key on t that has the nomangle or the alpha directive
InheritRuns ==
    {[opts |-> Options([size |-> 2]),
      schema |-> EmptyDict,
      tables |-> << Table("t", [size |-> n],
                      << Attribute("id", 1, "serial", TRUE, FALSE, FALSE, 0, "",
                                   kd) >>,
                      << >>),
                    Table("r", [size |-> 1],
                      << Attribute("fk", 1, "integer", FALSE, FALSE, TRUE, 1, "",
                                   fd) >>,
                      << >>) >>] :
        n \in 1..2,
        kd \in {[mangle |-> TRUE, step |-> 1],
                [gen |-> "power", rate |-> 50]},
        fd \in {[nomangle |-> TRUE], [alpha |-> 2]}}

\* a table of 2 rows with a date column, primary key or not, run on the
\* first of Days: start, end (after or before start), prec and size
\* directives given or not
DateRuns ==
    {[opts |-> Options([size |-> 2]),
      schema |-> EmptyDict,
      tables |-> << Table("t", EmptyDict,
                      << Attribute("d", 1, "date", pk, FALSE, TRUE, 0, "", dd) >>,
                      << >>) >>] :
        pk \in BOOLEAN,
        dd \in Opt(Opt(Opt(Opt({EmptyDict},
                   "start", {3}),
                   "end", {1, 6, 7}),
                   "prec", {2}),
                   "size", {2})}

\* a table of 2 rows with one column, primary key or UNIQUE or neither, of
\* a kind the float, blob, chars and text generators are made for
KindRuns ==
    {[opts |-> Options([size |-> 2]),
      schema |-> EmptyDict,
      tables |-> << Table("t", EmptyDict,
                      << Attribute("v", 1, k.type, f.pk, f.uq, TRUE, 0, "", k.d) >>,
                      << >>) >>] :
        f \in {[pk |-> FALSE, uq |-> FALSE], [pk |-> TRUE, uq |-> FALSE],
               [pk |-> FALSE, uq |-> TRUE]},
        k \in {[type |-> "float", d |-> EmptyDict],
               [type |-> "bytea", d |-> [length |-> 1]],
               [type |-> "text", d |-> [chars |-> "ab", length |-> 1]],
               [type |-> "text", d |-> [text |-> TRUE, word |-> ":a,b",
                                        length |-> 1, lenvar |-> 0]],
               [type |-> "text", d |-> [length |-> 3]]}}

\* a table of 2 rows with a text column, UNIQUE or not, that has a word
\* directive of 1 or 3 words, with size and offset directives or without
WordRuns ==
    {[opts |-> Options([size |-> 2]),
      schema |-> EmptyDict,
      tables |-> << Table("t", EmptyDict,
                      << Attribute("w", 1, "text", FALSE, uq, TRUE, 0, "", d) >>,
                      << >>) >>] :
        uq \in BOOLEAN,
        d \in Opt(Opt({[word |-> ":a"], [word |-> ":a,b,c"]},
                  "size", {2, 5}),
                  "offset", {-4, -1, 0, 2})}

\* the schema of the chars scenarios: one table of 2 rows with one text
\* column, whose directive lines the scanner has still to read
ScannedText(lines) ==
    [opts |-> Options([size |-> 2]),
     schema |-> EmptyDict,
     tables |-> << Table("t", EmptyDict,
                     << Attribute("s", 1, "text", FALSE, FALSE, TRUE, 0, "",
                                  EmptyDict) >>,
                     << >>) >>,
     lines |-> lines]

\* macro cg that sets the gen of an integer generator, then a column with
\* chars='abc', with cgen=cg or not, of 2 characters and of domain size 1
\* or 2
CharsRuns ==
    {ScannedText(<< Macro("cg", << Tok("str", "gen", cg) >>),
                    Directive("att", << Tok("txt", "chars", "abc") >> \o use),
                    Directive("att", << Tok("int", "length", 2),
                                        Tok("int", "size", n) >>) >>) :
        cg \in {"serial", "uniform", "serand"},
        use \in {<< >>, << Tok("str", "cgen", "cg") >>},
        n \in 1..2}

\* no earlier run
NoRun == [today |-> 0, err |-> "", draws |-> << >>, emitted |-> << >>]

\* the environment of a run made for the first time on day d of input c
FirstRun(d, c) == [today |-> d, run |-> 1, input |-> c, first |-> NoRun]

Setup(c) ==
    /\ pc = IF "lines" \in DOMAIN c THEN "scan" ELSE "defaults"
    /\ scan = IF "lines" \in DOMAIN c THEN Scanner(c.lines) ELSE NoScan
    /\ err = ""
    /\ schema = c.schema
    /\ opts = c.opts
    /\ tables = c.tables
    /\ aparams = [p \in {Positions[i] : i \in 1..Len(Positions)} |->
                     tables[p[1]].atts[p[2]].params]
    /\ tsize = EmptyDict
    /\ tskip = EmptyDict
    /\ asize = EmptyDict
    /\ gen = [p \in {Positions[i] : i \in 1..Len(Positions)} |-> NoGen]
    /\ gi = 1
    /\ ti = 1
    /\ row = 0
    /\ tries = 0
    /\ ustuff = [t \in 1..NT |-> {}]
    /\ attempts = 0
    /\ calls = [p \in {Positions[i] : i \in 1..Len(Positions)} |-> << >>]
    /\ nulls = [p \in {Positions[i] : i \in 1..Len(Positions)} |-> 0]
    /\ tuples = [t \in 1..NT |-> << >>]
    /\ emitted = [t \in 1..NT |-> << >>]
    /\ restart = EmptyDict
    /\ draws = << >>
    /\ env = FirstRun(IF "today" \in DOMAIN c THEN c.today
                       ELSE CHOOSE d \in Days : \A e \in Days : d <= e,
                       IF "again" \in DOMAIN c THEN c ELSE EmptyDict)

Init ==
    \/ \E c \in IntRuns : Setup(c)
    \/ \E c \in MangleRuns : Setup(c)
    \/ \E c \in UniqueRuns : Setup(c)
    \/ \E c \in ForeignKeyRuns : Setup(c)
    \/ \E c \in NullRuns : Setup(c)
    \/ \E c \in SizeRuns : Setup(c)
    \/ \E c \in SkipRuns : Setup(c)
    \/ \E c \in MacroRuns : Setup(c)
    \/ \E c \in TypeRuns : Setup(c)
    \/ \E c \in ExclusiveRuns : Setup(c)
    \/ \E c \in SeedRuns : Setup(c)
    \/ \E c \in KeyRuns : Setup(c)
    \/ \E c \in EmptyRuns : Setup(c)
    \/ \E c \in InheritRuns : Setup(c)
    \/ \E c \in DateRuns : Setup(c)
    \/ \E c \in KindRuns : Setup(c)
    \/ \E c \in WordRuns : Setup(c)
    \/ \E c \in CharsRuns : Setup(c)

Next ==
    \/ ScanLine
    \/ SetDefaults
    \/ SetTableSizes
    \/ SetAttSizes
    \/ CreateGenerator
    \/ FillLoop
    \/ GetDataAttempt
    \/ RestartSequences

Spec == Init /\ [][Next]_vars

---------------------------------------------------------------------------
(* The script run twice on the same input *)

\* the calls made so far on source src
Stream(ds, src) == SelectSeq(ds, LAMBDA e : e.src = src)

\* random.seed(opts.seed) and self.random.seed(self.params['seed']): the
\* source starts from its seed, unless the seed is None
Seeded(src) == IF src = shared THEN Has(opts, "seed") ELSE TRUE

\* the same call at the same place of the stream
SameCall(a, b) == a.call = b.call /\ a.arg = b.arg

\* random.Random: a source started from the same seed gives the same answers
\* to the same calls
Replayed ==
    env.run = 2 =>
       \A src \in {draws[i].src : i \in 1..Len(draws)} :
          Seeded(src) =>
             LET now == Stream(draws, src)
                 was == Stream(env.first.draws, src)
             IN  \A i \in 1..Len(now) :
                    (i <= Len(was) /\ \A j \in 1..i : SameCall(now[j], was[j]))
                       => now[i].out = was[i].out

\* the script is started again on the input of the first run, on any day
Rerun ==
    /\ pc \in {"done", "failed"}
    /\ env.run = 1
    /\ LET c == env.input
           P == {Positions[i] : i \in 1..Len(Positions)}
       IN  /\ pc' = IF "lines" \in DOMAIN c THEN "scan" ELSE "defaults"
           /\ scan' = IF "lines" \in DOMAIN c THEN Scanner(c.lines) ELSE NoScan
           /\ err' = ""
           /\ schema' = c.schema
           /\ opts' = c.opts
           /\ tables' = c.tables
           /\ aparams' = [p \in P |-> c.tables[p[1]].atts[p[2]].params]
           /\ tsize' = EmptyDict
           /\ tskip' = EmptyDict
           /\ asize' = EmptyDict
           /\ gen' = [p \in P |-> NoGen]
           /\ gi' = 1
           /\ ti' = 1
           /\ row' = 0
           /\ tries' = 0
           /\ ustuff' = [t \in 1..NT |-> {}]
           /\ attempts' = 0
           /\ calls' = [p \in P |-> << >>]
           /\ nulls' = [p \in P |-> 0]
           /\ tuples' = [t \in 1..NT |-> << >>]
           /\ emitted' = [t \in 1..NT |-> << >>]
           /\ restart' = EmptyDict
           /\ draws' = << >>
           /\ \E d \in Days :
                 env' = [today |-> d, run |-> 2, input |-> c,
                         first |-> [today |-> env.today, err |-> err,
                                    draws |-> draws, emitted |-> emitted]]

InitReplay == \E c \in ReplayRuns : Setup(Put(c, "again", TRUE))

NextReplay ==
    \/ ScanLine /\ Replayed'
    \/ SetDefaults /\ Replayed'
    \/ SetTableSizes /\ Replayed'
    \/ SetAttSizes /\ Replayed'
    \/ CreateGenerator /\ Replayed'
    \/ FillLoop /\ Replayed'
    \/ GetDataAttempt /\ Replayed'
    \/ RestartSequences /\ Replayed'
    \/ Rerun

SpecReplay == InitReplay /\ [][NextReplay]_vars

---------------------------------------------------------------------------
(* Vocabulary of the properties *)

AllPositions == {Positions[i] : i \in 1..Len(Positions)}

\* the attributes that have an integer generator
IntPositions == {p \in AllPositions : gen[p].kind = "int" /\ Has(gen[p], "step")}

AttOf(p) == tables[p[1]].atts[p[2]]

\* the directives the attribute was declared with
OwnParams(p) == tables[p[1]].atts[p[2]].params

\* the values genData returned at p, in call order
Returned(p) == [i \in 1..Len(calls[p]) |-> calls[p][i][2]]

\* the index in a tuple of table t of the value of attribute a
TupleIndex(t, a) == Cardinality({b \in 1..a : gen[<<t, b>>] # NoGen})

\* the generators are constructed
Constructed == pc \in {"fill", "getData", "restart", "done"}

---------------------------------------------------------------------------
(* C1: a serial integer generator of domain size S > 0 returns, in its     *)
(* first S genData calls, pairwise distinct values of [offset, offset+S),  *)
(* and after S calls these are the values offset + (shift + step*i) mod S  *)
(* for i in 0..S-1, the step being coprime with S.                         *)

SerialFirstCycle ==
    \A p \in IntPositions :
        LET g == gen[p]
            S == g.size
            n == IF Len(calls[p]) < S THEN Len(calls[p]) ELSE S
            v == Returned(p)
        IN  (g.type = "serial" /\ S > 0) =>
               /\ \A i, j \in 1..n : i # j => v[i] # v[j]
               /\ \A i \in 1..n : g.offset <= v[i] /\ v[i] < g.offset + S
               /\ \A d \in 2..S : ~(S % d = 0 /\ g.step % d = 0)
               /\ n = S =>
                    {v[i] : i \in 1..n} =
                    {g.offset + ((g.shift + g.step * i) % S) : i \in 0..(S - 1)}

\* a serial generator with a step other than 1 has completed a cycle of 3
SerialCycleDone ==
    \E p \in IntPositions :
        /\ gen[p].type = "serial"
        /\ gen[p].size >= 3
        /\ gen[p].step # 1
        /\ Len(calls[p]) >= gen[p].size

---------------------------------------------------------------------------
(* C2: every value of an integer generator built for an attribute is       *)
(* offset + (shift + step*base) mod size, shift being the shift directive  *)
(* of the attribute when it has one, else a value of [0, size) when mangle *)
(* applies, else 0.                                                        *)

\* every call of the generator at p follows the output formula with shift sh
FollowsShift(p, sh) ==
    \A i \in 1..Len(calls[p]) :
        LET g == gen[p]
            base == calls[p][i][1]
        IN  /\ base >= 0
            /\ calls[p][i][2] = g.offset + ((sh + g.step * base) % g.size)

OutputFormula ==
    \A p \in IntPositions :
        IF Has(aparams[p], "shift") THEN FollowsShift(p, aparams[p].shift)
        ELSE IF Mangle(aparams[p])
        THEN \E sh \in 0..(gen[p].size - 1) : FollowsShift(p, sh)
        ELSE FollowsShift(p, 0)

---------------------------------------------------------------------------
(* C3: a table of N rows with a unique integer attribute whose domain is   *)
(* smaller than N never gets past its generation pass: Table.getData never *)
(* returns N tuples for it, nor two tuples with the same value of the      *)
(* unique attribute.                                                       *)

\* attribute a of table t is unique: by its column flags, or by a
\* table-level constraint over that attribute alone
DeclaredUnique(t, a) ==
    \/ isUnique(tables[t].atts[a])
    \/ \E nu \in 1..Len(tables[t].unique) : tables[t].unique[nu] = <<a>>

SmallUniqueDomainFails ==
    Constructed =>
      \A p \in IntPositions :
        LET t == p[1]
            idx == TupleIndex(t, p[2])
        IN  (DeclaredUnique(t, p[2]) /\ gen[p].size < tsize[t]) =>
               /\ Len(tuples[t]) < tsize[t]
               /\ \A i, j \in 1..Len(tuples[t]) :
                     i # j => tuples[t][i][idx] # tuples[t][j][idx]
               /\ pc \notin {"restart", "done"}
               /\ pc = "fill" => ti <= t

---------------------------------------------------------------------------
(* C4: one call of Table.getData makes at most tries tuple attempts, none  *)
(* when tries is not positive.                                             *)

AtMostTriesAttempts ==
    attempts <= (IF opts.tries > 0 THEN opts.tries ELSE 0)

---------------------------------------------------------------------------
(* C5: once the generators are constructed, the generator of a foreign key *)
(* that has no size or offset directive of its own has the domain size and *)
(* the offset of the generator of the key it refers to.                    *)

\* the foreign keys that refer to a key that exists
ForeignKeys == {p \in AllPositions : AttOf(p).FK # 0 /\ KeyOf(AttOf(p)) # 0}

\* the key a foreign key refers to
KeyPosition(p) == <<AttOf(p).FK, KeyOf(AttOf(p))>>

ForeignKeyDomainIsKeyDomain ==
    Constructed =>
      \A p \in ForeignKeys \cap IntPositions :
        (~Has(OwnParams(p), "size") /\ ~Has(OwnParams(p), "offset")) =>
           /\ gen[p].size = gen[KeyPosition(p)].size
           /\ gen[p].offset = gen[KeyPosition(p)].offset

---------------------------------------------------------------------------
(* C6: after a complete run, every non-null value emitted for a foreign    *)
(* key is a value emitted for the key it refers to, in some row of the     *)
(* referenced table (when that table is generated).                        *)

\* the values emitted for the attribute at p
Emitted(p) ==
    {emitted[p[1]][i][TupleIndex(p[1], p[2])] : i \in 1..Len(emitted[p[1]])}

ForeignKeyValuesExist ==
    pc = "done" =>
      \A p \in ForeignKeys :
        (gen[p] # NoGen /\ gen[KeyPosition(p)] # NoGen
           /\ ~Has(tables[AttOf(p).FK].params, "nogen")) =>
           \A v \in Emitted(p) : v # null => v \in Emitted(KeyPosition(p))

---------------------------------------------------------------------------
(* C7: the generator of an attribute that is a primary key or NOT NULL has *)
(* null probability 0 and getData never returns null for it, whatever null *)
(* rates are configured; the generator of any other attribute takes the    *)
(* null rate given for the attribute.                                      *)

NonNullableNeverNull ==
    \A p \in AllPositions :
        /\ (AttOf(p).isPK \/ AttOf(p).not_null) =>
              /\ nulls[p] = 0
              /\ gen[p] # NoGen => gen[p].nullp = 0
              /\ \A i \in 1..Len(tuples[p[1]]) :
                    gen[p] # NoGen =>
                       tuples[p[1]][i][TupleIndex(p[1], p[2])] # null
        /\ (~AttOf(p).isPK /\ ~AttOf(p).not_null /\ gen[p] # NoGen
              /\ Has(aparams[p], "null")) =>
              gen[p].nullp = aparams[p].null

\* a primary key or NOT NULL attribute configured with null rate 1.0, at
\* attribute or table level, has generated a value
NonNullableUnderFullRate ==
    \E p \in AllPositions :
        /\ Len(calls[p]) >= 1
        /\ AttOf(p).isPK \/ AttOf(p).not_null
        /\ \/ Get(OwnParams(p), "null", 0) = RateOne
           \/ Get(tables[p[1]].params, "null", 0) = RateOne

---------------------------------------------------------------------------
(* C8, as stated: the null probability of a nullable attribute's generator *)
(* is the attribute's own null directive if set, else the null directive   *)
(* of its table if set, else the global null rate.                         *)

\* the rate resolved from attribute directives d for the attribute at p
ResolvedNull(p, d) ==
    IF Has(d, "null") THEN d.null
    ELSE IF Has(tables[p[1]].params, "null") THEN tables[p[1]].params.null
    ELSE opts.null

NullRateFromOwnDirective ==
    Constructed =>
      \A p \in AllPositions :
        (gen[p] # NoGen /\ isNullable(AttOf(p))) =>
           gen[p].nullp = ResolvedNull(p, OwnParams(p))

(* C8, amended: the null probability of a nullable attribute's generator   *)
(* is the null entry of the attribute's merged directives (its own null    *)
(* directive, else for a foreign key the null directive of the key it      *)
(* refers to), else the null directive of its table, else the global null  *)
(* rate; with rate 0 getData never returns null, with rate 1.0 it always   *)
(* does and genData is never called.                                       *)

NullRateResolution ==
    Constructed =>
      \A p \in AllPositions :
        (gen[p] # NoGen /\ isNullable(AttOf(p))) =>
           /\ gen[p].nullp = ResolvedNull(p, aparams[p])
           /\ gen[p].nullp = 0 => nulls[p] = 0
           /\ gen[p].nullp = RateOne => calls[p] = << >> /\ gen[p].gens = 0

\* a nullable foreign key without null directive, in a table that has one,
\* has taken the null directive of its key and getData was called on it
InheritedNullRateUsed ==
    \E p \in ForeignKeys :
        /\ isNullable(AttOf(p))
        /\ ~Has(OwnParams(p), "null")
        /\ Has(aparams[p], "null")
        /\ Has(tables[p[1]].params, "null")
        /\ gen[p] # NoGen
        /\ Len(tuples[p[1]]) >= 1

---------------------------------------------------------------------------
(* C9: a table's size is its size directive if present, else               *)
(* floor(mult * global size); the size of an attribute that is no foreign  *)
(* key is its size directive, else floor(table size * attribute mult); and *)
(* a table without size directive, skip or table-level constraint whose    *)
(* serial primary key takes the table size as domain emits that many rows, *)
(* the key values being offset 1 onward, each exactly once.                *)

Floor(num, den) == num \div den

SizeResolution ==
    /\ \A t \in DOMAIN tsize :
          tsize[t] = IF Has(tables[t].params, "size")
                     THEN tables[t].params.size
                     ELSE Floor(tables[t].params.mult * opts.size, MultOne)
    /\ \A p \in DOMAIN asize :
          AttOf(p).FK = 0 =>
             asize[p] = IF Has(OwnParams(p), "size") THEN OwnParams(p).size
                        ELSE Floor(tsize[p[1]] * OwnParams(p).mult, MultOne)
    /\ pc = "done" =>
          \A p \in IntPositions :
            LET t == p[1]
                N == Floor(tables[t].params.mult * opts.size, MultOne)
            IN  (/\ AttOf(p).isPK /\ AttOf(p).FK = 0
                 /\ gen[p].type = "serial"
                 /\ ~Has(tables[t].params, "size")
                 /\ ~Has(tables[t].params, "skip")
                 /\ ~Has(tables[t].params, "nogen")
                 /\ tables[t].unique = << >>
                 /\ ~Has(OwnParams(p), "size")
                 /\ OwnParams(p).mult = MultOne
                 /\ ~Has(OwnParams(p), "offset")
                 /\ ~Truthy(opts, "offset")) =>
                    /\ Len(emitted[t]) = N
                    /\ Emitted(p) = {IntVal(v) : v \in 1..N}

\* the table of mult=2.0 whose serial key has step=3 has been filled
DoubledTableFilled ==
    /\ pc = "done"
    /\ tables[1].name = "stuff"
    /\ tables[1].params.mult = 2 * MultOne
    /\ ~Has(tables[1].params, "size")
    /\ gen[<<1, 1>>].step = 3
    /\ asize[<<1, 1>>] = 2 * opts.size
    /\ Len(emitted[1]) = 2 * opts.size

---------------------------------------------------------------------------
(* C10: at the end of the run the number given to restart the sequence of  *)
(* each serial attribute of a generated table is the offset + size of its  *)
(* generator, and is greater than every value the generator returned.      *)

SequenceRestartPastValues ==
    pc = "done" =>
      \A i \in 1..Len(SerialPositions) :
        LET p == SerialPositions[i]
        IN  /\ p \in DOMAIN restart
            /\ restart[p] = gen[p].offset + gen[p].size
            /\ \A j \in 1..Len(calls[p]) : calls[p][j][2] < restart[p]

\* a sequence is restarted just past the largest value its generator, of
\* step or shape other than the default, returned
RestartJustPastLargest ==
    /\ pc = "done"
    /\ \E p \in DOMAIN restart :
          /\ gen[p].step # 1 \/ gen[p].type \in {"uniform", "serand"}
          /\ gen[p].gens > gen[p].size
          /\ \E j \in 1..Len(calls[p]) : calls[p][j][2] = restart[p] - 1

---------------------------------------------------------------------------
(* Vocabulary of the directive properties *)

Scopes == {"schema", "table", "att"}

RECURSIVE Flatten(_)
\* the tokens of the lines ls, in order
Flatten(ls) == IF ls = << >> THEN << >> ELSE Head(ls) \o Flatten(Tail(ls))

\* token d is the use of a macro
IsUse(d) == d.kind = "str" /\ d.key = "use"

\* the keys the tokens toks set, themselves or by the macros they use
KeysSet(toks) ==
    UNION {IF IsUse(toks[i])
           THEN (IF toks[i].val \in DOMAIN scan.macros
                 THEN DOMAIN scan.macros[toks[i].val] ELSE {})
           ELSE {toks[i].key} : i \in 1..Len(toks)}

\* the typed value an explicit token gives its key
TokenVal(d) ==
    Val(IF d.kind = "flt" THEN "float"
        ELSE IF d.kind = "int" THEN "int"
        ELSE IF d.kind = "bol" THEN "bool"
        ELSE "str", d.val)

\* token d sets key k, itself or by the macro it uses
Sets(d, k) ==
    IF IsUse(d)
    THEN d.val \in DOMAIN scan.macros /\ k \in DOMAIN scan.macros[d.val]
    ELSE d.key = k

\* the value token d sets key k to
SetTo(d, k) == IF IsUse(d) THEN scan.macros[d.val][k] ELSE TokenVal(d)

LastOf(I) == CHOOSE i \in I : \A j \in I : j <= i

\* the explicit tokens of line L that are the last explicit one for their key
LastExplicit(L) ==
    {i \in 1..Len(L) :
        /\ ~IsUse(L[i])
        /\ \A j \in (i + 1)..Len(L) : IsUse(L[j]) \/ L[j].key # L[i].key}

\* the uses in line L of a macro that holds key k
UsesHolding(L, k) == {j \in 1..Len(L) : IsUse(L[j]) /\ Sets(L[j], k)}

\* the directive line merged last into the attribute
LastAttLine == scan.merged.att[Len(scan.merged.att)]

---------------------------------------------------------------------------
(* C11, as stated: in the parameter map of an attribute a key given        *)
(* explicitly in a directive line keeps the explicit value over the value  *)
(* the key has in a macro used in that line, wherever the use= token is.   *)

ExplicitKeyOverMacro ==
    (pc # "failed" /\ scan.merged.att # << >>) =>
       \A i \in LastExplicit(LastAttLine) :
          UsesHolding(LastAttLine, LastAttLine[i].key) # {} =>
             scan.params.att[LastAttLine[i].key] = TokenVal(LastAttLine[i])

(* C11, amended: a key given explicitly keeps the explicit value over the  *)
(* macro's when its last explicit token comes after every use= of a macro  *)
(* holding the key; when such a use= comes later in the line, the key has  *)
(* the value of the last such macro.                                       *)

ExplicitKeyAfterMacro ==
    (pc # "failed" /\ scan.merged.att # << >>) =>
       \A i \in LastExplicit(LastAttLine) :
          LET k == LastAttLine[i].key
              later == {j \in UsesHolding(LastAttLine, k) : j > i}
          IN  scan.params.att[k] =
                 IF later = {} THEN TokenVal(LastAttLine[i])
                 ELSE SetTo(LastAttLine[LastOf(later)], k)

\* a line in which use= follows the explicit size has been merged, and the
\* attribute has the macro's size; and one in the other order
MacroAfterExplicitKey ==
    /\ pc \notin {"scan", "failed"}
    /\ Len(scan.merged.att) = 1
    /\ \E i \in LastExplicit(LastAttLine) :
          /\ LastAttLine[i].key = "size"
          /\ \E j \in UsesHolding(LastAttLine, "size") : j > i
          /\ scan.params.att.size # TokenVal(LastAttLine[i])
          /\ aparams[<<1, 1>>].size = scan.macros.m.size.v

---------------------------------------------------------------------------
(* C12: a key set several times in the directives merged into the schema,  *)
(* a table or an attribute (explicit tokens, macro expansions, successive  *)
(* lines) has the value of its last occurrence in token order; a key never *)
(* set is absent, or is the default mult; and no use entry is stored.      *)

LastWriteWins ==
    \A sc \in Scopes :
       LET toks == Flatten(scan.merged[sc])
       IN  /\ \A k \in KeysSet(toks) \cup DOMAIN scan.params[sc] :
                LET W == {i \in 1..Len(toks) : Sets(toks[i], k)}
                IN  IF W = {}
                    THEN k \in DOMAIN scan.params[sc] =>
                            /\ k = "mult"
                            /\ scan.params[sc][k] = Val("float", MultOne)
                    ELSE /\ k \in DOMAIN scan.params[sc]
                         /\ scan.params[sc][k] = SetTo(toks[LastOf(W)], k)
           /\ pc # "failed" => "use" \notin DOMAIN scan.params[sc]

\* two lines have been merged into the attribute, the first one setting size
\* explicitly and by a macro, the second one setting it again
KeySetSeveralTimes ==
    /\ pc \notin {"scan", "failed"}
    /\ Len(scan.merged.att) = 2
    /\ \E i, j \in 1..Len(scan.merged.att[1]) :
          /\ ~IsUse(scan.merged.att[1][i]) /\ scan.merged.att[1][i].key = "size"
          /\ IsUse(scan.merged.att[1][j]) /\ Sets(scan.merged.att[1][j], "size")
    /\ scan.merged.att[2] = << Tok("int", "size", 3) >>
    /\ scan.params.att.size = Val("int", 3)
    /\ <<1, 1>> \in DOMAIN asize /\ asize[<<1, 1>>] = 3

---------------------------------------------------------------------------
(* C13: once a directive is merged into the schema, a table or an          *)
(* attribute and the run goes on, every key of the parameter map is a      *)
(* legal key of the scope and its value has the type declared for the key, *)
(* an int being accepted for a float.                                      *)

TypeAccepted(declared, t) == t = declared \/ (declared = "float" /\ t = "int")

DirectivesTypeChecked ==
    \A sc \in Scopes :
       (pc # "failed" /\ scan.merged[sc] # << >>) =>
          \A k \in DOMAIN scan.params[sc] :
             /\ k \in DOMAIN LegalParams(sc)
             /\ TypeAccepted(LegalParams(sc)[k], scan.params[sc][k].t)

---------------------------------------------------------------------------
(* C14: when the directives merged into an attribute hold both mangle and  *)
(* nomangle, both alpha and rate, both word and chars, or cgen without     *)
(* chars, the run has failed, and no size was set nor generator built.     *)

Conflict(params) ==
    \/ Has(params, "mangle") /\ Has(params, "nomangle")
    \/ Has(params, "alpha") /\ Has(params, "rate")
    \/ Has(params, "word") /\ Has(params, "chars")
    \/ Has(params, "cgen") /\ ~Has(params, "chars")

ExclusiveDirectivesRejected ==
    Conflict(scan.params.att) =>
       /\ pc = "failed"
       /\ tsize = EmptyDict /\ asize = EmptyDict
       /\ \A p \in AllPositions : gen[p] = NoGen

\* a line that completes an exclusive pair by the macro it uses was rejected
ConflictByMacroRejected ==
    /\ pc = "failed"
    /\ err \in {"mangle and nomangle are exclusive",
                "alpha and rate are exclusive",
                "must choose one of word & chars",
                "cgen directive requires chars directive"}
    /\ \E j \in 1..Len(LastAttLine) : IsUse(LastAttLine[j])
    /\ ~Conflict([k \in {d.key : d \in {LastAttLine[j] : j \in 1..Len(LastAttLine)}}
                    \ {"use"} |-> TRUE])

---------------------------------------------------------------------------
(* C15: in a run where a foreign key refers to a table with nonzero skip,  *)
(* the script never gets past the attribute sizes: no generator is built   *)
(* and no tuple generated.                                                 *)

SkippedTarget ==
    \E p \in AllPositions :
       /\ AttOf(p).FK # 0
       /\ Get(tables[AttOf(p).FK].params, "skip", 0) # 0

SkippedTargetRejected ==
    SkippedTarget =>
       /\ pc \in {"scan", "defaults", "tsizes", "asizes", "failed"}
       /\ \A p \in AllPositions : gen[p] = NoGen
       /\ \A t \in 1..NT : tuples[t] = << >> /\ emitted[t] = << >>

\* the size propagation has failed on the reference to a table with skip
SkippedTargetFailure ==
    /\ SkippedTarget
    /\ pc = "failed"
    /\ err = "reference on table with skipped tuples"
    /\ DOMAIN tsize = 1..NT

---------------------------------------------------------------------------
(* C16: Table.getData returns one tuple per row of a generated table       *)
(* whatever its skip; every returned tuple, inserted or dropped, has its   *)
(* keys recorded and its generator counters advanced, and no key is        *)
(* generated again; the inserted tuples are some of the returned ones, in  *)
(* order, and all of them when skip is 0.                                  *)

RECURSIVE IsSubSeq(_, _)
IsSubSeq(a, b) ==
    IF a = << >> THEN TRUE
    ELSE IF b = << >> THEN FALSE
    ELSE IF Head(a) = Head(b) THEN IsSubSeq(Tail(a), Tail(b))
    ELSE IsSubSeq(a, Tail(b))

SkipIsFilter ==
    /\ \A t \in DOMAIN tskip :
          /\ IsSubSeq(emitted[t], tuples[t])
          /\ tskip[t] = 0 => emitted[t] = tuples[t]
          /\ t \in DOMAIN tsize => Len(tuples[t]) <= tsize[t]
          /\ \A i \in 1..Len(tuples[t]) : UKeys(t, tuples[t][i]) \subseteq ustuff[t]
          /\ \A i, j \in 1..Len(tuples[t]) :
                (i # j /\ tables[t].unique # << >>) =>
                   UKeys(t, tuples[t][i]) # UKeys(t, tuples[t][j])
          /\ (pc \in {"restart", "done"} /\ ~Has(tables[t].params, "nogen")) =>
                Len(tuples[t]) = tsize[t]
    /\ \A p \in IntPositions : gen[p].gens = Len(calls[p])

\* a table with a unique constraint and a skip strictly between 0 and 1 is
\* complete, and some of its tuples were dropped
SkippedTuplesDropped ==
    /\ pc = "done"
    /\ \E t \in 1..NT :
          /\ tskip[t] > 0 /\ tskip[t] < RateOne
          /\ tables[t].unique # << >>
          /\ Len(tuples[t]) = tsize[t]
          /\ Len(emitted[t]) < Len(tuples[t])
          /\ Len(emitted[t]) > 0

---------------------------------------------------------------------------
(* C17, as stated (for a foreign key whose generator has the offset and    *)
(* size of the generator of its key): when the table of a serand foreign   *)
(* key of domain size S has emitted at least S rows at the end of the run, *)
(* the first S values generated are pairwise distinct and every value of   *)
(* the key's domain is in an emitted row.                                  *)

\* the values of the domain of generator g
Domain(g) == {IntVal(v) : v \in g.offset..(g.offset + g.size - 1)}

\* the first n values genData returned at p
FirstValues(p, n) ==
    [i \in 1..(IF Len(calls[p]) < n THEN Len(calls[p]) ELSE n) |-> calls[p][i][2]]

Serands == {p \in ForeignKeys \cap IntPositions : gen[p].type = "serand"}

SerandCoversKey ==
    pc = "done" =>
      \A p \in Serands :
        (/\ gen[KeyPosition(p)] # NoGen
         /\ gen[p].offset = gen[KeyPosition(p)].offset
         /\ gen[p].size = gen[KeyPosition(p)].size
         /\ Len(emitted[p[1]]) >= gen[p].size) =>
           /\ \A i, j \in DOMAIN FirstValues(p, gen[p].size) :
                 i # j => FirstValues(p, gen[p].size)[i] # FirstValues(p, gen[p].size)[j]
           /\ Domain(gen[KeyPosition(p)]) \subseteq Emitted(p)

(* C17, amended: the first S values a serand generator of domain size S    *)
(* generates are pairwise distinct, and every value it generates is in its *)
(* own domain [offset, offset+S); when at the end of the run it has        *)
(* returned no null, its table has no skip and no discarded attempt, and   *)
(* at least S rows, every value of that domain is in an emitted row.       *)

SerandCoversOwnDomain ==
    \A p \in Serands :
       LET S == gen[p].size
           first == FirstValues(p, S)
       IN  /\ \A i, j \in DOMAIN first : i # j => first[i] # first[j]
           /\ \A i \in 1..Len(calls[p]) : IntVal(calls[p][i][2]) \in Domain(gen[p])
           /\ (/\ pc = "done"
               /\ nulls[p] = 0
               /\ tskip[p[1]] = 0
               /\ Len(calls[p]) = Len(tuples[p[1]])
               /\ Len(emitted[p[1]]) >= S) =>
                  Domain(gen[p]) \subseteq Emitted(p)

\* a serand foreign key has covered its domain and then drawn again
SerandCycleThenDraws ==
    /\ pc = "done"
    /\ \E p \in Serands :
          /\ gen[p].size > 1
          /\ Len(calls[p]) > gen[p].size
          /\ Domain(gen[p]) \subseteq Emitted(p)
          /\ calls[p][Len(calls[p])][1] # Len(calls[p]) - 1

---------------------------------------------------------------------------
(* C18, as stated: when the script has been run twice on the same schema    *)
(* with the same global seed, the second run has emitted the rows of the    *)
(* first, for every table.                                                  *)

\* the second run is over, and the runs had a global seed
SeededRunsOver == env.run = 2 /\ pc \in {"done", "failed"} /\ Has(opts, "seed")

DatedFromToday ==
    {p \in AllPositions :
        /\ gen[p].kind = "date"
        /\ ~Has(aparams[p], "start") /\ ~Has(aparams[p], "end")}

---------------------------------------------------------------------------
(* C19, as stated: after the attribute sizes are set, a foreign key has    *)
(* every directive of its key that its own directives do not set, with the *)
(* key's value, and keeps the directives it sets itself other than prefix; *)
(* a foreign key with a prefix directive is rejected.                      *)

SizesSet == pc \in {"gens", "fill", "getData", "restart", "done"}

KeyDirectivesTransferred ==
    SizesSet =>
      \A p \in ForeignKeys :
         /\ \A d \in DOMAIN aparams[KeyPosition(p)] \ AttOf(p).given :
               /\ d \in DOMAIN aparams[p]
               /\ aparams[p][d] = aparams[KeyPosition(p)][d]
         /\ \A d \in AttOf(p).given \ {"prefix"} : aparams[p][d] = OwnParams(p)[d]
         /\ "prefix" \notin AttOf(p).given

(* C19, amended: after the attribute sizes are set, a foreign key has      *)
(* every entry of its key's parameter map that its own map did not hold,   *)
(* with the key's value, and keeps every entry it held, the default mult   *)
(* 1.0 included, except prefix, which is the key's prefix or else the      *)
(* key's name; a foreign key with a prefix directive is rejected.          *)

KeyEntriesTransferred ==
    SizesSet =>
      \A p \in ForeignKeys :
         /\ \A d \in DOMAIN aparams[KeyPosition(p)] \ DOMAIN OwnParams(p) :
               /\ d \in DOMAIN aparams[p]
               /\ aparams[p][d] = aparams[KeyPosition(p)][d]
         /\ \A d \in DOMAIN OwnParams(p) \ {"prefix"} :
               aparams[p][d] = OwnParams(p)[d]
         /\ aparams[p].prefix = Get(aparams[KeyPosition(p)], "prefix",
                                    tables[KeyPosition(p)[1]].atts[KeyPosition(p)[2]].name)
         /\ ~Has(OwnParams(p), "prefix")

\* a foreign key with a directive of its own has taken the offset of its
\* key and kept its default mult, the key having another mult
KeyMultNotTransferred ==
    /\ SizesSet
    /\ \E p \in ForeignKeys :
          /\ AttOf(p).given # {}
          /\ aparams[KeyPosition(p)].mult # MultOne
          /\ aparams[p].mult = MultOne
          /\ Has(aparams[KeyPosition(p)], "offset")
          /\ aparams[p].offset = aparams[KeyPosition(p)].offset

---------------------------------------------------------------------------
(* C20: the defaults step leaves every option that was given (size, null   *)
(* rate, offset, mangle) as it was given, a zero included.                 *)

GivenOptionsKept ==
    [][pc = "defaults" =>
          /\ \A k \in DOMAIN opts \cap {"size", "null", "offset"} :
                k \in DOMAIN opts' /\ opts'[k] = opts[k]
          /\ opts.mangle => opts'.mangle]_vars

---------------------------------------------------------------------------
(* C21: no two tuples returned by Table.getData for a table agree on all   *)
(* the attributes of a table-level uniqueness constraint, the key being    *)
(* built from the values of the attributes of the constraint also when     *)
(* attributes without generator come before them, and building the key     *)
(* never indexes outside the tuple.                                        *)

\* tuples i and j of table t differ on an attribute of constraint nu
DifferOn(t, nu, i, j) ==
    \E k \in 1..Len(tables[t].unique[nu]) :
        LET a == tables[t].unique[nu][k]
        IN  /\ gen[<<t, a>>] # NoGen
            /\ tuples[t][i][TupleIndex(t, a)] # tuples[t][j][TupleIndex(t, a)]

UniqueKeysDistinct ==
    /\ err # "IndexError"
    /\ \A t \in 1..NT :
         \A nu \in 1..Len(tables[t].unique) :
           \A i, j \in 1..Len(tuples[t]) : i # j => DifferOn(t, nu, i, j)

---------------------------------------------------------------------------
(* C22: the seen-key set of a table holds exactly one key per constraint   *)
(* and returned tuple: an attempt that collides on a constraint records no *)
(* key, not even for the constraints checked before, a call that fails     *)
(* leaves the set as it was, and a returned tuple adds one key per         *)
(* constraint.                                                             *)

\* the keys of constraint nu of table t in ustuff
SeenKeys(t, nu) == {k \in ustuff[t] : k[1] = nu}

OneKeyPerTuple ==
    \A t \in 1..NT :
      \A nu \in 1..Len(tables[t].unique) :
        Cardinality(SeenKeys(t, nu)) = Len(tuples[t])

\* under UNIQUE(id), UNIQUE(a), the second attempt passed the constraint on
\* id and collided on a, after one tuple was returned
CollisionOnLaterConstraint ==
    /\ pc = "getData"
    /\ NT = 1 /\ NA(1) = 2
    /\ tables[1].unique = << <<2>>, <<1>> >>
    /\ Len(tuples[1]) = 1
    /\ Len(calls[<<1, 1>>]) = 2 /\ Len(calls[<<1, 2>>]) = 2
    /\ calls[<<1, 1>>][2][2] = calls[<<1, 1>>][1][2]
    /\ calls[<<1, 2>>][2][2] # calls[<<1, 2>>][1][2]
    /\ Cardinality(ustuff[1]) = 2

---------------------------------------------------------------------------
(* C29: in a table with a serial primary key whose domain size is the      *)
(* number of rows and a uniqueness constraint over other attributes, the   *)
(* tuples returned by Table.getData carry pairwise distinct key values,    *)
(* also when attempts were discarded for a collision on the constraint.    *)

\* the serial primary keys whose domain is the number of rows, in a table
\* with a constraint that does not involve them
SerialKeysBesideConstraint ==
    {p \in IntPositions :
        /\ AttOf(p).isPK /\ isSerial(AttOf(p))
        /\ gen[p].type = "serial"
        /\ p[1] \in DOMAIN tsize /\ gen[p].size = tsize[p[1]]
        /\ tables[p[1]].unique # << >>
        /\ \A nu \in 1..Len(tables[p[1]].unique) :
              \A k \in 1..Len(tables[p[1]].unique[nu]) :
                 tables[p[1]].unique[nu][k] # p[2]}

SerialKeysDistinct ==
    Constructed =>
      \A p \in SerialKeysBesideConstraint :
        \A i, j \in 1..Len(tuples[p[1]]) :
          i # j => tuples[p[1]][i][TupleIndex(p[1], p[2])]
                     # tuples[p[1]][j][TupleIndex(p[1], p[2])]

---------------------------------------------------------------------------
(* C23: the counter of a generator never decreases and its domain size     *)
(* never changes once it is constructed; the counter is the number of      *)
(* values genData has returned, so it is positive from the first call of   *)
(* getData that returns a value on (a call that returns NULL leaves it     *)
(* as it is), and it never comes back to 0.                                *)

\* the attributes whose generator is constructed in this state and the next
Generating(p) == Has(gen[p], "gens") /\ Has(gen'[p], "gens")

\* Generator.getData was called at p
Called(p) == nulls[p] + Len(calls[p]) >= 1

\* the domain size of the generator at p, if it has one, is kept
SizeKept(p) == Has(gen[p], "size") => gen'[p].size = gen[p].size

\* the claim as stated: the counter is positive once getData was called
CounterPositiveOnceCalled ==
    [][\A p \in AllPositions :
          Generating(p) =>
             /\ gen'[p].gens >= gen[p].gens
             /\ SizeKept(p)
             /\ Called(p)' => gen'[p].gens > 0]_vars

\* the float and blob generators draw no integer, and the text generator
\* draws one for each word of a value
CounterCountsValues ==
    [][\A p \in AllPositions :
          Generating(p) =>
             /\ gen'[p].gens >= gen[p].gens
             /\ SizeKept(p)
             /\ gen'[p].kind \in {"float", "blob"} => gen'[p].gens = 0
             /\ gen'[p].kind \notin {"float", "blob", "text"} =>
                   gen'[p].gens = Len(calls'[p])]_vars

\* a generator that has returned NULL and then a value
ValueAfterNull ==
    \E p \in AllPositions :
        /\ Has(gen[p], "gens")
        /\ nulls[p] >= 1
        /\ Len(calls[p]) = 1
        /\ gen[p].gens = 1

---------------------------------------------------------------------------
(* C24: the error of an empty domain, for a generating integer-based       *)
(* attribute of size 0 in a table of at least one row, is raised when the  *)
(* generators are constructed: no getData call has been made and no tuple  *)
(* of any table has been returned or emitted before it.                    *)

EmptyDomainBeforeTuples ==
    err = "cannot draw from empty set" =>
       /\ \A p \in AllPositions : nulls[p] = 0 /\ calls[p] = << >>
       /\ \A t \in 1..NT : tuples[t] = << >> /\ emitted[t] = << >>

---------------------------------------------------------------------------
(* C30: when the generators are constructed, the parameter map of no       *)
(* attribute holds both members of an exclusive pair (mangle and nomangle, *)
(* alpha and rate, word and chars), the parameters a foreign key took from *)
(* the key it refers to included.                                          *)

ExclusivePair(params) ==
    \/ Has(params, "mangle") /\ Has(params, "nomangle")
    \/ Has(params, "alpha") /\ Has(params, "rate")
    \/ Has(params, "word") /\ Has(params, "chars")

NoExclusivePairAtConstruction ==
    \A p \in AllPositions :
       gen[p] # NoGen => ~ExclusivePair(aparams[p])

---------------------------------------------------------------------------
(* C27: a date generator given start and end, start not after end, with    *)
(* the precision prec of at least one day, has the domain size             *)
(* floor((end - start) / prec) + 1 whatever the size directive, and every  *)
(* date d it generates has start <= d <= end with d - start a multiple of  *)
(* prec; without start the dates run backward from end, or from the day of *)
(* the run, by multiples of prec.                                          *)

DatePositions == {p \in AllPositions : gen[p].kind = "date"}

\* the days genData returned at p
DaysOf(p) == {calls[p][i][2] : i \in 1..Len(calls[p])}

\* the precision of the generator at p
PrecOf(p) == Get(aparams[p], "prec", 1)

\* start and end are given at p
Ranged(p) == Has(aparams[p], "start") /\ Has(aparams[p], "end")

---------------------------------------------------------------------------
(* C25: no generator of a kind that does not support uniqueness (float,    *)
(* chars, text, blob) is constructed for an attribute that is a primary    *)
(* key or UNIQUE: the construction fails.                                  *)

UnsupportedKinds == {"float", "chars", "text", "blob"}

UniqueUnsupportedFails ==
    \A p \in AllPositions :
       (gen[p] # NoGen /\ gen[p].kind \in UnsupportedKinds) =>
          ~isUnique(AttOf(p))

---------------------------------------------------------------------------
(* C26: a word generator over a list of L words has a domain size of at    *)
(* most L, the offset 0 when the configured offset plus the size exceeds   *)
(* L, and every genData call selects the entry at an index of [0, L): no   *)
(* IndexError is raised.                                                   *)

WordPositions == {p \in AllPositions : gen[p].kind = "word"}

WordIndexInList ==
    /\ err # "IndexError"
    /\ \A p \in WordPositions :
          LET g == gen[p]
              L == Len(g.words)
          IN  /\ g.size <= L
              /\ (IntOffset(AttOf(p), aparams[p], 0) + g.size > L) =>
                    g.offset = 0
              /\ \A i \in 1..Len(calls[p]) :
                    Value(g, calls[p][i][1]) \in 0..(L - 1)

---------------------------------------------------------------------------
(* C28: the string a chars generator builds for an index n is the same     *)
(* every time n is drawn, whatever the generator selected by cgen, so a    *)
(* chars attribute of domain size S returns at most S distinct strings.    *)

CharsPositions == {p \in AllPositions : gen[p].kind = "chars"}

\* the index n of call i at p
IndexOf(p, i) == Value(gen[p], calls[p][i][1])

CharsStringByIndex ==
    \A p \in CharsPositions :
       /\ \A i, j \in 1..Len(calls[p]) :
             IndexOf(p, i) = IndexOf(p, j) => calls[p][i][2] = calls[p][j][2]
       /\ Cardinality({calls[p][i][2] : i \in 1..Len(calls[p])}) <= gen[p].size

=============================================================================
